---- MODULE Spec2Model ----
(***************************************************************************)
(* pgrollback: a PostgreSQL wire-protocol proxy that keeps one base        *)
(* transaction open per test id and maps client BEGIN / COMMIT / ROLLBACK  *)
(* onto the savepoint pgrollback_v_1 inside it.                            *)
(*                                                                         *)
(* One session (one test id) shared by the client connections of Conns.    *)
(* Every method of realSessionDB that holds d.mu.Lock() for its whole body *)
(* is one atomic action; what the code does between two lock regions is a  *)
(* separate action, so the other connections interleave exactly where the  *)
(* lock is free.  ApplyTCLSuccessTracking is one action: its lock regions  *)
(* read and write the level of a connection that already passed the claim. *)
(*                                                                         *)
(* The reserved savepoint prefix is spelled "pgrollback_v_" in             *)
(* session_db.go and "pgtest_v_" in connection.go (the rename reached one  *)
(* file only); both name the same constant and are modelled as one.        *)
(*                                                                         *)
(* Thirteen specifications share the state.  Spec is the session under the *)
(* simple-query commands of its connections.  SpecExtended is the          *)
(* session's statement and portal maps under the extended-query messages.  *)
(* SpecRegistry is PGTest, the registry of sessions by test id, with each  *)
(* session seen from outside: its upstream connection, whether its base    *)
(* transaction is open, and the rows written in it.                        *)
(* SpecServer is the listener: the accept loop, the connection handlers    *)
(* and Stop.  SpecStartup is one client socket from its first packet to    *)
(* the proxy loop.  SpecHistory is the session's query history.            *)
(* SpecSimpleQuery is the replies of the message loop to a Query message.  *)
(* SpecRestart is `pgrollback rollback` taken in its two lock regions.     *)
(* SpecActivity is the registry under a clock: session creation, client    *)
(* commands and CleanupExpiredSessions.  SpecSavepoint is Spec with the    *)
(* SAVEPOINT / RELEASE / ROLLBACK TO commands of the client itself.        *)
(* SpecClose is DestroySession beside the keepalive goroutine and a        *)
(* command in flight, SpecStatus is `pgrollback status` beside the writers *)
(* of d.mu, and SpecAccept is acceptConnections step by step beside Stop;  *)
(* SpecClose and SpecStatus carry the fairness of the Go scheduler and of  *)
(* sync.Mutex / sync.RWMutex.                                              *)
(***************************************************************************)
EXTENDS Integers, Sequences, FiniteSets, TLC

\* Client connections sharing the session (ConnectionID values, never 0).
Conns == {1, 2}

\* connectionWithOpenTx when no connection holds the claim.
NoConn == 0

\* Largest value the pgx nested-transaction counter (sp_N) takes in a base
\* transaction; a command that needs a guard is not issued beyond it.
MaxSavepointNum == 2

\* Rows of the one table of the model; the row 0 is committed before the
\* session starts, the row 1 is client work.
Rows == {0, 1}
InitData == {0}

\* ---------------------------------------------------------------- SQL text

pgrollbackSavepointPrefix == "pgrollback_v_"

Stmt(op, arg) == [op |-> op, arg |-> arg]

NoName == <<"", 0>>

\* "-- ping": an SQL comment, no statement at all.
DEFAULT_SELECT_ONE == << >>

GetSavepointName(level) == <<pgrollbackSavepointPrefix, level>>

GetNextSavepointName(level) == <<pgrollbackSavepointPrefix, level + 1>>

GuardName(n) == <<"sp_", n>>

IsReserved_any(name) == TRUE

IsReserved(name) == name[1] = pgrollbackSavepointPrefix

extractSavepointNameFromQuery(query) ==
    LET hits == {i \in 1..Len(query) : IsReserved(query[i].arg)}
    IN  IF hits = {} THEN NoName
        ELSE query[CHOOSE i \in hits : \A j \in hits : i <= j].arg

IsUserBeginQuery(query) ==
    /\ Len(query) > 0
    /\ query[1].op = "SAVEPOINT"
    /\ IsReserved(query[1].arg)

isUserReleaseQuery(query) ==
    /\ Len(query) > 0
    /\ query[1].op = "RELEASE"
    /\ IsReserved(query[1].arg)

IsQueryThatAffectsClaim(query) ==
    IsUserBeginQuery(query) \/ isUserReleaseQuery(query)

isSavepointCommand(query) ==
    Len(query) > 0 /\ query[1].op = "SAVEPOINT"

commandInvalidatesGuardOnSuccess(query) ==
    Len(query) > 0 /\ query[1].op \in {"ROLLBACK", "ROLLBACK_TO", "RELEASE"}

\* ------------------------------------------------------- PostgreSQL backend
\* b = [stack, data, aborted, base, commits, alive]: the savepoint stack of
\* the open transaction (name and snapshot), the rows it sees, whether it is
\* in the aborted state, the rows committed in the database, whether a
\* COMMIT was ever executed, and whether the connection is still open.

\* The name DEALLOCATE ALL takes the place of.
DeallocateAllName == <<"ALL", 0>>

TopIndex(stack, name) ==
    LET hits == {i \in 1..Len(stack) : stack[i].name = name}
    IN  IF hits = {} THEN 0
        ELSE CHOOSE i \in hits : \A j \in hits : j <= i

BStmt(b, s) ==
    IF ~b.alive THEN [b |-> b, err |-> "conn closed"]
    ELSE IF s.op = "ROLLBACK"
    THEN [b |-> [b EXCEPT !.stack = << >>, !.data = b.base, !.aborted = FALSE],
          err |-> "ok"]
    ELSE IF s.op = "COMMIT"
    THEN [b |-> [b EXCEPT !.stack = << >>, !.aborted = FALSE,
                          !.base = IF b.aborted THEN b.base ELSE b.data,
                          !.data = IF b.aborted THEN b.base ELSE b.data,
                          !.commits = TRUE],
          err |-> "ok"]
    ELSE IF s.op = "ROLLBACK_TO"
    THEN LET i == TopIndex(b.stack, s.arg)
         IN  IF i = 0
             THEN [b |-> [b EXCEPT !.aborted = TRUE], err |-> "3B001"]
             ELSE [b |-> [b EXCEPT !.stack = SubSeq(b.stack, 1, i),
                                   !.data = b.stack[i].snap,
                                   !.aborted = FALSE],
                   err |-> "ok"]
    ELSE IF b.aborted THEN [b |-> b, err |-> "25P02"]
    ELSE IF s.op = "SAVEPOINT"
    THEN [b |-> [b EXCEPT !.stack = Append(b.stack,
                                   [name |-> s.arg, snap |-> b.data])],
          err |-> "ok"]
    ELSE IF s.op = "RELEASE"
    THEN LET i == TopIndex(b.stack, s.arg)
         IN  IF i = 0
             THEN [b |-> [b EXCEPT !.aborted = TRUE], err |-> "3B001"]
             ELSE [b |-> [b EXCEPT !.stack = SubSeq(b.stack, 1, i - 1)],
                   err |-> "ok"]
    ELSE IF s.op = "DEALLOCATE"
    THEN \* the proxy answers Parse itself and never prepares upstream
         IF s.arg = DeallocateAllName THEN [b |-> b, err |-> "ok"]
         ELSE [b |-> [b EXCEPT !.aborted = TRUE], err |-> "26000"]
    ELSE IF s.op = "INSERT"
    THEN IF s.arg[2] \in b.data
         THEN [b |-> [b EXCEPT !.aborted = TRUE], err |-> "23505"]
         ELSE [b |-> [b EXCEPT !.data = b.data \cup {s.arg[2]}], err |-> "ok"]
    ELSE \* SELECT: arg[2] = 0 succeeds, 1 fails when parsed, 2 fails when run
         IF s.arg[2] = 0 THEN [b |-> b, err |-> "ok"]
         ELSE [b |-> [b EXCEPT !.aborted = TRUE],
               err |-> IF s.arg[2] = 1 THEN "42P01" ELSE "22012"]

\* A simple-query string of several statements stops at the first error.
RECURSIVE BExec(_, _)
BExec(b, query) ==
    IF query = << >> THEN [b |-> b, err |-> "ok"]
    ELSE LET r == BStmt(b, Head(query))
         IN  IF r.err # "ok" THEN r ELSE BExec(r.b, Tail(query))

\* ------------------------------------------------------------- pgx driver
\* db = [b, num, busy]: the backend, the nested-transaction counter of the
\* pgx base transaction (savepointNum), and the connection whose result rows
\* are still being read from the upstream (NoConn: none).

ErrConnBusy == "conn busy"

\* pgx Conn.Exec: refused while a result set is open on the connection.
ConnExec(db, query) ==
    IF db.busy # NoConn THEN [db |-> db, err |-> ErrConnBusy]
    ELSE LET r == BExec(db.b, query)
         IN  [db |-> [db EXCEPT !.b = r.b], err |-> r.err]

\* pgx Tx.Begin on the base transaction: SAVEPOINT sp_<savepointNum + 1>.
TxBegin(db) ==
    LET n == db.num + 1
    IN  ConnExec([db EXCEPT !.num = n], <<Stmt("SAVEPOINT", GuardName(n))>>)

\* pgx nested Tx.Commit: RELEASE SAVEPOINT sp_n.
NestedCommit(db, n) == ConnExec(db, <<Stmt("RELEASE", GuardName(n))>>)

\* pgx nested Tx.Rollback: ROLLBACK TO SAVEPOINT sp_n (sp_n stays defined).
NestedRollback(db, n) == ConnExec(db, <<Stmt("ROLLBACK_TO", GuardName(n))>>)

\* ------------------------------------------------------------ realSessionDB

ErrOnlyOneTransactionAtATime == "only one transaction at a time"

ErrNoOpenUserTransaction == "no open transaction on this connection"

ErrNoActiveTransaction == "no active transaction"

hasOpenUserTransaction(claim) == claim # NoConn

isTransactionHeldByOtherConnection_same(claim, connID) ==
    hasOpenUserTransaction(claim) /\ claim = connID

isTransactionHeldByOtherConnection(claim, connID) ==
    hasOpenUserTransaction(claim) /\ claim # connID

ClaimOpenTransaction_always(claim, connID) ==
    [claim |-> connID, err |-> "ok"]

ClaimOpenTransaction(claim, connID) ==
    IF isTransactionHeldByOtherConnection(claim, connID)
    THEN [claim |-> claim, err |-> ErrOnlyOneTransactionAtATime]
    ELSE [claim |-> connID, err |-> "ok"]

releaseOpenTransactionLocked_kept(claim, connID) == claim

releaseOpenTransactionLocked(claim, connID) ==
    IF claim = connID THEN NoConn ELSE claim

handleRollback_always(level) ==
    IF level >= 0
    THEN <<Stmt("ROLLBACK_TO", GetSavepointName(level)),
           Stmt("RELEASE", GetSavepointName(level))>>
    ELSE DEFAULT_SELECT_ONE

handleRollback(level) ==
    IF level > 0
    THEN <<Stmt("ROLLBACK_TO", GetSavepointName(level)),
           Stmt("RELEASE", GetSavepointName(level))>>
    ELSE DEFAULT_SELECT_ONE

handleCommit_real(level) ==
    IF level > 0
    THEN <<Stmt("COMMIT", NoName)>>
    ELSE DEFAULT_SELECT_ONE

handleCommit(level) ==
    IF level > 0
    THEN <<Stmt("RELEASE", GetSavepointName(level))>>
    ELSE DEFAULT_SELECT_ONE

\* handleBegin up to beginTx: the two early returns.
handleBeginPrecheck(txv, claim, connID) ==
    IF ~txv THEN ErrNoActiveTransaction
    ELSE IF connID # NoConn /\ isTransactionHeldByOtherConnection(claim, connID)
    THEN ErrOnlyOneTransactionAtATime
    ELSE "ok"

handleBeginNested_always(level) == FALSE

\* handleBegin's read of d.SavepointLevel, taken without the lock.
handleBeginNested(level) == level >= 1

\* handleBegin's last two lines, GetNextSavepointName under its own RLock.
handleBeginSavepoint(level) ==
    <<Stmt("SAVEPOINT", GetNextSavepointName(level))>>

SafeExec_refused(db, sql) == [db |-> db, err |-> ErrConnBusy]

SafeExec(db, sql) ==
    LET g == TxBegin(db)
    IN  IF g.err # "ok" THEN g
        ELSE LET n == g.db.num
                 e == ConnExec(g.db, sql)
             IN  IF e.err # "ok"
                 THEN [db |-> NestedRollback(e.db, n).db, err |-> e.err]
                 ELSE NestedCommit(e.db, n)

SafeExecTCL(db, sql) ==
    IF isSavepointCommand(sql) THEN ConnExec(db, sql)
    ELSE LET g == TxBegin(db)
         IN  IF g.err # "ok" THEN g
             ELSE LET n == g.db.num
                      e == ConnExec(g.db, sql)
                  IN  IF e.err # "ok"
                      THEN [db |-> NestedRollback(e.db, n).db, err |-> e.err]
                      ELSE IF commandInvalidatesGuardOnSuccess(sql) THEN e
                      ELSE NestedCommit(e.db, n)

\* SafeQuery: rows |-> the guardedRows it returns (n: its guard, err: what
\* Rows.Err() will report once the rows are read), or NoRows with an error.
NoRows == [n |-> 0, err |-> "none"]

SafeQuery(db, sql, connID) ==
    LET g == TxBegin(db)
    IN  IF g.err # "ok" THEN [db |-> g.db, err |-> g.err, rows |-> NoRows]
        ELSE LET n == g.db.num
                 e == ConnExec(g.db, sql)
             IN  IF e.err \in {"ok", "22012"}
                 THEN [db |-> [e.db EXCEPT !.busy = connID], err |-> "ok",
                       rows |-> [n |-> n, err |-> e.err]]
                 ELSE [db |-> NestedRollback(e.db, n).db, err |-> e.err,
                       rows |-> NoRows]

\* startNewTx, with tx.Rollback, conn.Exec("ROLLBACK") and conn.Begin.  pgx
\* closes the connection when the rollback of a transaction cannot be sent,
\* which is the case while a result set is open on it; the server then
\* rolls the transaction back on its own.
startNewTx_keep(db, txv) ==
    [db |-> db, tx |-> TRUE, err |-> "ok"]

startNewTx(db, txv) ==
    LET r1 == IF txv THEN ConnExec(db, <<Stmt("ROLLBACK", NoName)>>)
              ELSE [db |-> db, err |-> "ok"]
        d1 == IF r1.err = "ok" THEN r1.db
              ELSE [r1.db EXCEPT !.busy = NoConn,
                                 !.b = [r1.db.b EXCEPT !.alive = FALSE,
                                                       !.stack = << >>,
                                                       !.aborted = FALSE,
                                                       !.data = r1.db.b.base]]
        r2 == ConnExec(d1, <<Stmt("ROLLBACK", NoName)>>)
    IN  IF r2.err # "ok" THEN [db |-> r2.db, tx |-> FALSE, err |-> r2.err]
        ELSE [db |-> [r2.db EXCEPT !.num = 0], tx |-> TRUE, err |-> "ok"]

\* The statement and portal maps of the session, as RunMessageLoop uses
\* them: SetPreparedStatement(name, query), BindPortal(portal, statement),
\* QueryForPortal(portal), CloseStatementOrPortal(type, name).
StmtNames == {"s1", "s2"}

Portals == {""}

NoSql == << >>

NoStmt == "-"

\* The SQL text connection c prepares: a SELECT of a constant of its own.
PreparedSql(c) == <<Stmt("SELECT", <<"const", c>>)>>

SetPreparedStatement(m, name, sql) == [m EXCEPT ![name] = sql]

BindPortal(pm, prt, name) == [pm EXCEPT ![prt] = name]

QueryForPortal(m, pm, prt) ==
    IF pm[prt] = NoStmt THEN NoSql ELSE m[pm[prt]]

CloseStatementOrPortal(m, pm, objectType, name) ==
    IF objectType = "S" /\ name \in StmtNames
    THEN [m |-> [m EXCEPT ![name] = NoSql], pm |-> pm]
    ELSE IF objectType = "P" /\ name \in Portals
    THEN [m |-> m, pm |-> [pm EXCEPT ![name] = NoStmt]]
    ELSE [m |-> m, pm |-> pm]

\* InterceptQuery on a query that is neither a pgtest command nor BEGIN,
\* COMMIT or ROLLBACK: returned as it came.
InterceptQuery(q) == q

\* One pass of the loop of RollbackUserSavepointsOnDisconnect: the statement
\* it sends for the level it found.
disconnectRollbackSql(level) ==
    <<Stmt("ROLLBACK_TO", <<pgrollbackSavepointPrefix, level>>),
      Stmt("RELEASE", <<pgrollbackSavepointPrefix, level>>)>>

\* --------------------------------------------------------- proxyConnection

ApplyTCLSuccessTracking_norelease(query, level, claim, count, connID) ==
    [level |-> level, claim |-> claim, count |-> count, err |-> "ok"]

ApplyTCLSuccessTracking(query, level, claim, count, connID) ==
    LET savepointName == extractSavepointNameFromQuery(query)
        same == [level |-> level, claim |-> claim, count |-> count,
                 err |-> "ok"]
    IN  IF savepointName = NoName THEN same
        ELSE IF IsUserBeginQuery(query)
        THEN IF savepointName # GetNextSavepointName(level) THEN same
             ELSE [same EXCEPT !.level = level + 1, !.count = count + 1]
        ELSE IF \E i \in 1..Len(query) :
                   query[i].op = "ROLLBACK_TO" /\ IsReserved(query[i].arg)
        THEN same    \* the decrement and the release are commented out
        ELSE IF isUserReleaseQuery(query)
        THEN IF savepointName # GetSavepointName(level) THEN same
             ELSE IF count <= 0
             THEN [same EXCEPT !.err = ErrNoOpenUserTransaction]
             ELSE [level |-> IF level > 0 THEN level - 1 ELSE level,
                   count |-> count - 1,
                   claim |-> IF count - 1 = 0
                             THEN releaseOpenTransactionLocked(claim, connID)
                             ELSE claim,
                   err |-> "ok"]
        ELSE same

ReadyForQueryTxStatus_always(count) ==
    IF count >= 0 THEN "T" ELSE "I"

ReadyForQueryTxStatus(count) ==
    IF count > 0 THEN "T" ELSE "I"

\* ------------------------------------------------------------------ PGTest
\* The registry of sessions by test id.  Each session owns one upstream
\* connection with one base transaction; here a session is seen from outside:
\* which upstream it owns, whether its base transaction is open, whether a
\* result set is being read from it, and the rows written in its transaction.

TestIDs == {"a", "b"}

\* What a caller may pass as a test id.
TestIDArgs == TestIDs \cup {""}

MaxUpstreams == 2

UpstreamIds == 1..MaxUpstreams

\* PGTest.Timeout and the span of the clock, in ticks.
Timeout == 1

MaxTime == 2

NoErr == "ok"

ErrSessionNotFound == "session not found for test_id"

ErrTestIDRequired == "testID is required to create a new session"

ErrConnectFailed == "failed to create connection for testID"

ErrRollbackFailed == "failed to rollback transaction"

ErrConnClosed == "conn closed"

ErrUnexpectedEOF == "unexpected EOF"

\* How an upstream connection can be found dead.
DeadErrors == {ErrConnClosed, ErrUnexpectedEOF}

NoSession == [id |-> 0, LastActivity |-> 0]

NoUpstream == [owner |-> "", state |-> "none", txOpen |-> FALSE,
               reading |-> FALSE, data |-> {}, err |-> NoErr]

\* strings.ToLower on the error texts that occur.
ToLower(e) == IF e = ErrUnexpectedEOF THEN "unexpected eof" ELSE e

\* isConnClosedOrFatal: the text says that the connection is gone.
isConnClosedOrFatal(e) ==
    /\ e # NoErr
    /\ ToLower(e) \in {"conn closed", "connection reset", "broken pipe",
                       "connection refused", "unexpected eof"}

\* sync.Mutex.Lock can proceed.
TryLock_free(holder) == TRUE

TryLock(holder) == holder = NoConn

\* session.DB != nil && session.DB.PgConn() != nil
sessionValid(ses, ups) == ups[ses.id].state # "closed"

\* newConnectionForTestID: a connection of its own, never handed out before.
newConnectionForTestID_shared(ups) == 1

newConnectionForTestID(ups) ==
    CHOOSE u \in UpstreamIds :
        /\ ups[u].state = "none"
        /\ \A v \in UpstreamIds : ups[v].state = "none" => u <= v

\* createNewSession: connect, begin the base transaction, build the session.
createNewSession(ups, t, now, connected) ==
    IF t = "" THEN [err |-> ErrTestIDRequired, ses |-> NoSession, ups |-> ups]
    ELSE IF ~connected
    THEN [err |-> ErrConnectFailed, ses |-> NoSession, ups |-> ups]
    ELSE LET u == newConnectionForTestID(ups)
         IN  [err |-> NoErr,
              ses |-> [id |-> u, LastActivity |-> now],
              ups |-> [ups EXCEPT ![u] =
                          [owner |-> t, state |-> "open", txOpen |-> TRUE,
                           reading |-> FALSE, data |-> {}, err |-> NoErr]]]

\* pgx Tx.Rollback on the connection as it is.
TxRollback(up) ==
    IF up.state = "dead" THEN up.err
    ELSE IF up.reading THEN ErrConnBusy
    ELSE NoErr

\* realSessionDB.rollbackTx: nothing to do without a transaction; otherwise
\* roll back and forget the transaction, whatever the rollback returned.
rollbackTx(up) ==
    IF ~up.txOpen THEN [up |-> up, err |-> NoErr]
    ELSE LET e == TxRollback(up)
         IN  [up |-> [up EXCEPT !.txOpen = FALSE,
                                !.data = IF e = NoErr THEN {} ELSE @],
              err |-> e]

\* realSessionDB.close: roll back what is open and close the connection; the
\* server discards the transaction of a closed connection.
close(up) ==
    [up EXCEPT !.txOpen = FALSE, !.data = {}, !.reading = FALSE,
               !.state = "closed", !.err = NoErr]

DestroySession_lenient(reg, ups, t) ==
    [reg |-> reg, ups |-> ups, err |-> NoErr]

DestroySession(reg, ups, t) ==
    IF t \notin TestIDs \/ reg[t] = NoSession
    THEN [reg |-> reg, ups |-> ups, err |-> ErrSessionNotFound]
    ELSE LET u == reg[t].id
             r == rollbackTx(ups[u])
         IN  IF r.err # NoErr /\ ~isConnClosedOrFatal(r.err)
             THEN [reg |-> reg, ups |-> [ups EXCEPT ![u] = r.up],
                   err |-> ErrRollbackFailed]
             ELSE [reg |-> [reg EXCEPT ![t] = NoSession],
                   ups |-> [ups EXCEPT ![u] = close(r.up)],
                   err |-> NoErr]

expired_atTimeout(ses, now) == now - ses.LastActivity >= Timeout

\* now.Sub(session.LastActivity) > p.Timeout
expired(ses, now) == now - ses.LastActivity > Timeout

CleanupExpiredSessions(reg, ups, now) ==
    LET gone == {t \in TestIDs : reg[t] # NoSession /\ expired(reg[t], now)}
    IN  [reg |-> [t \in TestIDs |-> IF t \in gone THEN NoSession ELSE reg[t]],
         ups |-> [u \in UpstreamIds |->
                     IF \E t \in gone : reg[t].id = u
                     THEN close(rollbackTx(ups[u]).up) ELSE ups[u]],
         cleaned |-> Cardinality(gone)]

\* ------------------------------------------------------- simple query flow
\* Statements in one Query message.
MaxCommands == 3

\* Rows a statement returns.
MaxRows == 1

FULLROLLBACK_SENTINEL == "-- fullrollback"

\* What InterceptQuery hands back: an error, nothing, the sentinel of the
\* full rollback, or SQL for the backend.
Intercepted == {"error", "", FULLROLLBACK_SENTINEL, "sql"}

\* The statements of a message: each a SELECT or a command without rows.
Statements == UNION {[1..n -> {"select", "command"}] : n \in 1..MaxCommands}

\* What the backend does with one statement: the rows it returns, and whether
\* it fails, before its result starts ("refused") or while it is read
\* ("midway").
Outcomes(n) == [1..n -> [rows : 0..MaxRows, err : {"none", "refused", "midway"}]]

Sent(out) == [out |-> out, err |-> FALSE]

Failed(out) == [out |-> out, err |-> TRUE]

DataRows(n) == [i \in 1..n |-> "DataRow"]

\* SendReadyForQuery.
SendReadyForQuery(out) == Append(out, "ReadyForQuery")

SendErrorResponse_bare(out) == Append(out, "ErrorResponse")

\* SendErrorResponse: the ErrorResponse, then SendReadyForQuery.
SendErrorResponse(out) == SendReadyForQuery(Append(out, "ErrorResponse"))

\* SendSelectResults: RowDescription, the rows that arrive, CommandComplete,
\* then the flush; an error of the rows is not looked at.
SendSelectResults(out, res, flushOk) ==
    LET o == out \o <<"RowDescription">> \o DataRows(res.rows)
                 \o <<"CommandComplete">>
    IN  IF flushOk THEN Sent(o) ELSE Failed(o)

\* ExecuteSelectQuery.
ExecuteSelectQuery(out, res, flushOk, sendReadyForQuery) ==
    IF res.err = "refused" THEN Failed(out)
    ELSE LET s == SendSelectResults(out, res, flushOk)
         IN  IF s.err THEN s
             ELSE IF sendReadyForQuery THEN Sent(SendReadyForQuery(s.out))
             ELSE s

\* ForwardCommandToDB: one statement.
ForwardCommandToDB(out, kind, res, hasTx, flushOk, sendReadyForQuery) ==
    IF ~hasTx THEN Failed(out)
    ELSE IF kind = "select"
    THEN ExecuteSelectQuery(out, res, flushOk, sendReadyForQuery)
    ELSE IF res.err # "none" THEN Failed(out)
    ELSE LET o == Append(out, "CommandComplete")
         IN  IF sendReadyForQuery THEN Sent(SendReadyForQuery(o)) ELSE Sent(o)

\* The loop of ForwardMultipleCommandsToDB over the results from statement i
\* on: a command's CommandComplete is sent at once, a SELECT with rows is
\* kept as the last one; the loop ends when a statement is refused (the error
\* comes out of mrr.Close) and the function returns when a result reader
\* fails.
RECURSIVE NextResults(_, _, _, _, _)
NextResults(out, kinds, res, i, lastRows) ==
    IF i > Len(kinds)
    THEN [out |-> out, err |-> FALSE, closeErr |-> FALSE, lastRows |-> lastRows]
    ELSE IF res[i].err = "refused"
    THEN [out |-> out, err |-> FALSE, closeErr |-> TRUE, lastRows |-> lastRows]
    ELSE IF res[i].err = "midway"
    THEN [out |-> out, err |-> TRUE, closeErr |-> FALSE, lastRows |-> lastRows]
    ELSE IF kinds[i] = "select"
    THEN NextResults(out, kinds, res, i + 1,
                     IF res[i].rows > 0 THEN res[i].rows ELSE lastRows)
    ELSE NextResults(Append(out, "CommandComplete"), kinds, res, i + 1,
                     lastRows)

\* ForwardMultipleCommandsToDB.
ForwardMultipleCommandsToDB(out, kinds, res, hasTx, flushOk, sendReadyForQuery) ==
    IF ~hasTx THEN Failed(out)
    ELSE LET loop == NextResults(out, kinds, res, 1, 0)
             o == IF loop.lastRows > 0
                  THEN loop.out \o <<"RowDescription">>
                       \o DataRows(loop.lastRows) \o <<"CommandComplete">>
                  ELSE loop.out
         IN  IF loop.err THEN Failed(loop.out)
             ELSE IF loop.closeErr THEN Failed(o)
             ELSE IF ~flushOk THEN Failed(o)
             ELSE IF sendReadyForQuery THEN Sent(SendReadyForQuery(o))
             ELSE Sent(o)

\* ExecuteInterpretedQuery.
ExecuteInterpretedQuery(out, kinds, res, hasTx, flushOk, sendReadyForQuery) ==
    IF Len(kinds) > 1
    THEN ForwardMultipleCommandsToDB(out, kinds, res, hasTx, flushOk,
                                     sendReadyForQuery)
    ELSE ForwardCommandToDB(out, kinds[1], res[1], hasTx, flushOk,
                            sendReadyForQuery)

\* ProcessSimpleQuery.
ProcessSimpleQuery(sessionThere, intercepted, kinds, res, hasTx, flushOk) ==
    IF ~sessionThere THEN Failed(<< >>)
    ELSE IF intercepted = "error" THEN Failed(<< >>)
    ELSE IF intercepted = "" \/ intercepted = FULLROLLBACK_SENTINEL
    THEN Sent(SendReadyForQuery(<<"CommandComplete">>))
    ELSE ExecuteInterpretedQuery(<< >>, kinds, res, hasTx, flushOk, TRUE)

NoMessage == [pc |-> "idle", statements |-> << >>, intercepted |-> "",
              failed |-> FALSE, wire |-> << >>]

\* ------------------------------------------------- restart of the base tx
\* The session while startNewTx runs: who holds d.mu, where each connection
\* stands, whether d.tx is set, whether the upstream is in a transaction,
\* whose result rows are open on it, whether it is still connected, and the
\* statement a client's command last ran on it (by: the connection, gap: it
\* ran between the rollback of the base transaction and the new BEGIN), and
\* what the last startNewTx returned.
NoRestart == [mu |-> NoConn, at |-> [c \in Conns |-> "idle"], tx |-> TRUE,
              inTx |-> TRUE, reading |-> NoConn, alive |-> TRUE,
              ran |-> [by |-> NoConn, sql |-> "-", gap |-> FALSE],
              err |-> "-"]

\* startNewTx has rolled the base transaction back and not yet begun the
\* new one.
InGap(r) == \E c \in Conns : r.at[c] \in {"rolledBack", "cleared"}

\* pgx: a statement reaches the backend only on a connection that is open
\* and has no result rows being read.
Reaches(r) == r.alive /\ r.reading = NoConn

\* A statement of connection c's command runs on the upstream.
Ran(r, c, sql) == [r EXCEPT !.ran = [by |-> c, sql |-> sql, gap |-> InGap(r)]]

\* ------------------------------------------------------------ query history
maxQueryHistory == 100

\* Calls of SetLastQuery in a run.
MaxQueries == 103

\* The texts a query can have: a statement, the driver's DEALLOCATE, blank.
QueryTexts == {"SELECT", "DEALLOCATE", ""}

\* isInternalNoiseQuery: blank, or a DEALLOCATE.
isInternalNoiseQuery(text) == text = "" \/ text = "DEALLOCATE"

SetLastQuery_dropNewest(hist, entry) ==
    IF isInternalNoiseQuery(entry.Query) THEN hist
    ELSE IF Len(hist) + 1 > maxQueryHistory THEN hist
    ELSE Append(hist, entry)

\* SetLastQuery: a query that is not noise is appended, and beyond
\* maxQueryHistory entries the first one is cut off.
SetLastQuery(hist, entry) ==
    IF isInternalNoiseQuery(entry.Query) THEN hist
    ELSE LET h == Append(hist, entry)
         IN  IF Len(h) > maxQueryHistory THEN Tail(h) ELSE h

\* ------------------------------------------------------- startup handshake
\* The first bytes of a client socket: the Int32 length and the Int32 that
\* follows it.
SSLRequestCode == 80877103

CancelRequestCode == 80877102

GSSEncRequestCode == 80877104

ProtocolVersion == 196608

FirstLengths == {8, 16, 40}

FirstCodes ==
    {SSLRequestCode, CancelRequestCode, GSSEncRequestCode, ProtocolVersion}

\* An application_name is a sequence of pieces; "pgtest_" and "pgrollback_"
\* are the prefixes, "default" the word, "x" anything else.
Pieces == {"pgtest_", "pgrollback_", "default", "x"}

MaxPieces == 2

AppNames ==
    UNION {[1..n -> Pieces] : n \in 0..MaxPieces}

\* ExtractTestID: "default" for no or empty application_name and for
\* "default", the rest after ^pgtest_(.+)$, and the name itself otherwise.
ExtractTestID(appName) ==
    IF appName = << >> \/ appName = <<"default">> THEN <<"default">>
    ELSE IF Len(appName) >= 2 /\ Head(appName) = "pgtest_" THEN Tail(appName)
    ELSE appName

\* handleConnection: code == SSLRequestCode.
isSSLRequest_any(code) == TRUE

isSSLRequest(code) == code = SSLRequestCode

\* pgproto3 Backend.ReceiveStartupMessage on a packet of this length and
\* code: what it returns, or "error".
ReceiveStartupMessage(length, code) ==
    IF length - 4 < 4 THEN "error"
    ELSE IF code = ProtocolVersion
    THEN IF length > 8 THEN "StartupMessage" ELSE "error"
    ELSE IF code = SSLRequestCode
    THEN IF length = 8 THEN "SSLRequest" ELSE "error"
    ELSE IF code = CancelRequestCode
    THEN IF length = 16 THEN "CancelRequest" ELSE "error"
    ELSE IF code = GSSEncRequestCode
    THEN IF length = 8 THEN "GSSEncRequest" ELSE "error"
    ELSE "error"

NoSocket == [pc |-> "none", length |-> 0, code |-> 0, app |-> << >>,
             password |-> FALSE, packet |-> <<0, 0>>, got |-> "-",
             sent |-> << >>, testID |-> << >>]

\* Client sockets the listener can hand out.
MaxSockets == 3

Sockets == 1..MaxSockets

\* The rows a query through the session of an upstream sees.
Visible(up) == up.data

NoCall == [op |-> "none", id |-> "", res |-> "-", ret |-> 0, found |-> FALSE,
           seen |-> {}]

\* ------------------------------------------------------------------- state

NoDisconnect == [n |-> 0, level |-> 0, sps |-> 0]

NoCommand == [at |-> 0, id |-> 0]

\* The server before StartServer: no listener, no accept loop.
NoServer == [listener |-> FALSE, open |-> FALSE, gui |-> "none",
             loop |-> "none", conn |-> "-", stop |-> "idle", waiting |-> 0,
             handled |-> 0, pushed |-> 0, panic |-> "-"]

\* d.mu with no reader and no writer, nobody asking for the status.
NoStatus == [readers |-> 0, writer |-> [c \in Conns |-> "idle"],
             reader |-> "idle", level |-> 0, active |-> "-", seen |-> 0,
             asked |-> 0]

\* No session yet: d.mu free, no keepalive goroutine, nobody closing.
NoClosing == [session |-> "none", mu |-> "free", pinger |-> "none",
              cancelled |-> FALSE, closer |-> "idle", by |-> "none",
              client |-> [c \in Conns |-> "idle"], pings |-> 0]

\* The pgrollback_v_* savepoints defined in the base transaction.
UserSavepoints(b) ==
    Cardinality({i \in 1..Len(b.stack) : IsReserved(b.stack[i].name)})

VARIABLES
    SavepointLevel,            \* realSessionDB.SavepointLevel
    connectionWithOpenTx,      \* realSessionDB.connectionWithOpenTx
    tx,                        \* realSessionDB.tx # nil
    userOpenTransactionCount,  \* proxyConnection.userOpenTransactionCount
    savepointNum,              \* pgx: guards opened in the base transaction
    backend,                   \* the PostgreSQL side of the upstream
    busy,                      \* connection reading rows from the upstream
    panicked,                  \* the process died on a nil d.tx
    pc,                        \* where each connection's handler stands
    query,                     \* the SQL the handler is about to forward
    rows,                      \* the guardedRows the handler holds
    last,                      \* the step just taken: connection, step, answer,
                               \*   rows it removed from the session's view
    chain,                     \* BEGIN, then COMMIT or ROLLBACK, on an idle session
    discLeft,                  \* RollbackUserSavepointsOnDisconnect: count - i
    discFrom,                  \* what a disconnecting connection found: its
                               \*   counter, the level, the user savepoints
    preparedStatements,        \* session: statement name -> query
    portals,                   \* session: portal name -> statement name
    mine,                      \* per connection: name -> the query it prepared
    myPortal,                  \* per connection: portal -> the statement it bound
    SessionsByTestID,          \* PGTest.SessionsByTestID
    pgConns,                   \* the upstream connections ever opened
    mu,                        \* PGTest.mu: the caller holding it
    clock,                     \* time.Now()
    rpc,                       \* where each caller stands in GetOrCreateSession
    rarg,                      \* the test id of the call in progress
    rlast,                     \* the registry call just finished
    listener,                  \* Server.listener # nil
    listening,                 \* the listening socket is open
    sockets,                   \* each client socket: unborn, open, closed
    acceptor,                  \* acceptConnections: where it stands, the
                               \*   connection it holds
    handler,                   \* handleConnection of each socket
    activeConns,               \* Server.activeConns
    wg,                        \* Server.wg: the counter
    stopPc,                    \* Stop: where it stands
    stopConns,                 \* Stop: its copy of activeConns
    startup,                   \* one client socket from accept to the proxy loop
    queryHistory,              \* realSessionDB.queryHistory
    recorded,                  \* every query recorded since the last clear
    offered,                   \* calls of SetLastQuery since the last clear
    simpleQuery,               \* a Query message and the replies sent for it
    restart,                   \* startNewTx in its steps, beside the clients
    commandAt,                 \* per test id: when a client's command last ran
                               \*   on its session, and on which upstream
    closing,                   \* one session with its keepalive goroutine, its
                               \*   clients and the call that closes it
    status,                    \* realSessionDB.mu as a sync.RWMutex, under
                               \*   `pgrollback status` and the writers
    accepting                  \* the accept loop with the admin listener,
                               \*   beside Stop

vars == <<SavepointLevel, connectionWithOpenTx, tx, userOpenTransactionCount,
          savepointNum, backend, busy, panicked, pc, query, rows, last, chain,
          discLeft, discFrom, preparedStatements, portals, mine, myPortal,
          SessionsByTestID, pgConns, mu, clock, rpc, rarg, rlast,
          listener, listening, sockets, acceptor, handler, activeConns, wg,
          stopPc, stopConns, startup, queryHistory, recorded, offered,
          simpleQuery, restart, commandAt, closing, status, accepting>>

session == <<SavepointLevel, connectionWithOpenTx, tx,
             userOpenTransactionCount>>

upstream == <<savepointNum, backend, busy>>

\* What the handling of a client's SQL command leaves alone.
extended == <<preparedStatements, portals, mine, myPortal>>

\* The registry and its callers.
registry == <<SessionsByTestID, pgConns, mu, clock, rpc, rarg, rlast>>

\* The server: its listener, its accept loop and its connection handlers.
server == <<listener, listening, sockets, acceptor, handler, activeConns, wg,
            stopPc, stopConns>>

\* The session's query history.
history == <<queryHistory, recorded, offered>>

\* What the handling of a client's messages on a session leaves alone.
later == <<restart, commandAt, closing, status, accepting>>

apart == <<registry, server, startup, history, simpleQuery, later>>

aside == <<discLeft, discFrom, extended, apart>>

Init ==
    /\ SavepointLevel = 0
    /\ connectionWithOpenTx = NoConn
    /\ tx = TRUE
    /\ userOpenTransactionCount = [c \in Conns |-> 0]
    /\ savepointNum = 0
    /\ backend = [stack |-> << >>, data |-> InitData, aborted |-> FALSE,
                  base |-> InitData, commits |-> FALSE, alive |-> TRUE]
    /\ busy = NoConn
    /\ panicked = FALSE
    /\ pc = [c \in Conns |-> "idle"]
    /\ query = [c \in Conns |-> << >>]
    /\ rows = [c \in Conns |-> NoRows]
    /\ last = [conn |-> NoConn, op |-> "init", res |-> "-", undone |-> {}]
    /\ chain = [c \in Conns |-> "none"]
    /\ discLeft = [c \in Conns |-> 0]
    /\ discFrom = [c \in Conns |-> NoDisconnect]
    /\ preparedStatements = [n \in StmtNames |-> NoSql]
    /\ portals = [q \in Portals |-> NoStmt]
    /\ mine = [c \in Conns |-> [n \in StmtNames |-> NoSql]]
    /\ myPortal = [c \in Conns |-> [q \in Portals |-> NoStmt]]
    /\ SessionsByTestID = [t \in TestIDs |-> NoSession]
    /\ pgConns = [u \in UpstreamIds |-> NoUpstream]
    /\ mu = NoConn
    /\ clock = 0
    /\ rpc = [c \in Conns |-> "idle"]
    /\ rarg = [c \in Conns |-> ""]
    /\ rlast = NoCall
    /\ listener = TRUE
    /\ listening = TRUE
    /\ sockets = [k \in Sockets |-> "unborn"]
    /\ acceptor = [pc |-> "accept", conn |-> 0]
    /\ handler = [k \in Sockets |-> "none"]
    /\ activeConns = {}
    /\ wg = 0
    /\ stopPc = "idle"
    /\ stopConns = {}
    /\ startup = NoSocket
    /\ queryHistory = << >>
    /\ recorded = << >>
    /\ offered = 0
    /\ simpleQuery = NoMessage
    /\ restart = NoRestart
    /\ commandAt = [t \in TestIDs |-> NoCommand]
    /\ closing = NoClosing
    /\ status = NoStatus
    /\ accepting = NoServer

\* The upstream as the driver operators take it.
DB == [b |-> backend, num |-> savepointNum, busy |-> busy]

SetUpstream(db) ==
    /\ backend' = db.b
    /\ savepointNum' = db.num
    /\ busy' = db.busy

\* Connection c's handler moves on to state p.
Goto(c, op, p) ==
    /\ pc' = [pc EXCEPT ![c] = p]
    /\ last' = [conn |-> c, op |-> op, res |-> "-", undone |-> {}]

\* Connection c's handler answers the client (CommandComplete or
\* ErrorResponse, then ReadyForQuery) and waits for the next message.
Answer(c, op, r) ==
    /\ pc' = [pc EXCEPT ![c] = "idle"]
    /\ last' = [conn |-> c, op |-> op, res |-> r, undone |-> {}]

\* The session as a connection that is alone on it finds it before its first
\* BEGIN: level 0, no claim, no counter, nobody else at work.
IdleSession(c) ==
    /\ SavepointLevel = 0
    /\ connectionWithOpenTx = NoConn
    /\ \A o \in Conns : userOpenTransactionCount[o] = 0
    /\ \A o \in Conns \ {c} : pc[o] = "idle" /\ chain[o] = "none"

\* chain[c] follows the commands of c while no other connection sends any:
\* "begin" from a BEGIN on the idle session, then "commit" or "rollback"
\* from the command that follows it at once.
Chain(c, k) ==
    chain' = [o \in Conns |->
                IF o # c THEN "none"
                ELSE IF k = "begin" /\ IdleSession(c) /\ tx /\ backend.alive
                          /\ ~backend.aborted
                THEN "begin"
                ELSE IF k \in {"commit", "rollback"} /\ chain[c] = "begin"
                THEN k
                ELSE "none"]

NoQuery(c) == [query EXCEPT ![c] = << >>]

\* ------------------------------------------------- simple-query dispatch
\* BEGIN arrives: handleBegin up to its early returns (the claim check is
\* made under Lock, which is released before the level is read).
HandleBegin(c) ==
    /\ ~panicked
    /\ UNCHANGED aside
    /\ pc[c] = "idle"
    /\ Chain(c, "begin")
    /\ LET e == handleBeginPrecheck(tx, connectionWithOpenTx, c)
       IN  IF e # "ok" THEN Answer(c, "begin", e)
           ELSE Goto(c, "begin", "beginLevel")
    /\ UNCHANGED <<session, upstream, panicked, query, rows>>

\* handleBegin's unlocked read of the level; at level >= 1 the BEGIN is
\* answered without any SQL.
BeginLevel(c) ==
    /\ ~panicked
    /\ UNCHANGED aside
    /\ pc[c] = "beginLevel"
    /\ IF handleBeginNested(SavepointLevel)
       THEN Answer(c, "beginLevel", "ok")
       ELSE Goto(c, "beginLevel", "beginName")
    /\ UNCHANGED <<session, upstream, panicked, query, rows, chain>>

\* handleBegin's GetNextSavepointName, a second read of the level.
BeginName(c) ==
    /\ ~panicked
    /\ UNCHANGED aside
    /\ pc[c] = "beginName"
    /\ query' = [query EXCEPT ![c] = handleBeginSavepoint(SavepointLevel)]
    /\ Goto(c, "beginName", "claim")
    /\ UNCHANGED <<session, upstream, panicked, rows, chain>>

\* ClaimOpenTransaction, before the SAVEPOINT of a BEGIN is executed.
Claim(c) ==
    /\ ~panicked
    /\ UNCHANGED aside
    /\ pc[c] = "claim"
    /\ LET r == ClaimOpenTransaction(connectionWithOpenTx, c)
       IN  /\ connectionWithOpenTx' = r.claim
           /\ IF r.err # "ok"
              THEN Answer(c, "claim", r.err) /\ query' = NoQuery(c)
              ELSE Goto(c, "claim", "execTCL") /\ UNCHANGED query
    /\ UNCHANGED <<SavepointLevel, tx, userOpenTransactionCount, upstream,
                   panicked, rows, chain>>

\* COMMIT arrives: handleCommit; the no-op marker is answered without SQL.
HandleCommit(c) ==
    /\ ~panicked
    /\ UNCHANGED aside
    /\ pc[c] = "idle"
    /\ SavepointLevel > 0 => savepointNum < MaxSavepointNum
    /\ Chain(c, "commit")
    /\ LET q == handleCommit(SavepointLevel)
       IN  IF q = DEFAULT_SELECT_ONE
           THEN Answer(c, "commit", "ok") /\ UNCHANGED query
           ELSE Goto(c, "commit", "execTCL")
                  /\ query' = [query EXCEPT ![c] = q]
    /\ UNCHANGED <<session, upstream, panicked, rows>>

\* ROLLBACK arrives: handleRollback, likewise.
HandleRollback(c) ==
    /\ ~panicked
    /\ UNCHANGED aside
    /\ pc[c] = "idle"
    /\ SavepointLevel > 0 => savepointNum < MaxSavepointNum
    /\ Chain(c, "rollback")
    /\ LET q == handleRollback(SavepointLevel)
       IN  IF q = DEFAULT_SELECT_ONE
           THEN Answer(c, "rollback", "ok") /\ UNCHANGED query
           ELSE Goto(c, "rollback", "execTCL")
                  /\ query' = [query EXCEPT ![c] = q]
    /\ UNCHANGED <<session, upstream, panicked, rows>>

\* The rewritten TCL goes through SafeExecTCL; when it fails and the query
\* is one that affects the claim, ReleaseOpenTransaction follows.
ExecTCL(c) ==
    /\ ~panicked
    /\ UNCHANGED aside
    /\ pc[c] = "execTCL"
    /\ IF ~tx
       THEN /\ panicked' = TRUE
            /\ last' = [conn |-> c, op |-> "execTCL", res |-> "panic",
                         undone |-> {}]
            /\ UNCHANGED <<connectionWithOpenTx, upstream, pc, query>>
       ELSE LET r == SafeExecTCL(DB, query[c])
            IN  /\ SetUpstream(r.db)
                /\ IF r.err = "ok"
                   THEN /\ Goto(c, "execTCL", "track")
                        /\ UNCHANGED <<connectionWithOpenTx, query>>
                   ELSE /\ connectionWithOpenTx' =
                             IF IsQueryThatAffectsClaim(query[c])
                             THEN releaseOpenTransactionLocked(
                                      connectionWithOpenTx, c)
                             ELSE connectionWithOpenTx
                        /\ Answer(c, "execTCL", r.err)
                        /\ query' = NoQuery(c)
                /\ UNCHANGED panicked
    /\ UNCHANGED <<SavepointLevel, tx, userOpenTransactionCount, rows, chain>>

\* The backend accepted the TCL: ApplyTCLSuccessTracking.
Track(c) ==
    /\ ~panicked
    /\ UNCHANGED aside
    /\ pc[c] = "track"
    /\ LET r == ApplyTCLSuccessTracking(query[c], SavepointLevel,
                    connectionWithOpenTx, userOpenTransactionCount[c], c)
       IN  /\ SavepointLevel' = r.level
           /\ connectionWithOpenTx' = r.claim
           /\ userOpenTransactionCount' =
                  [userOpenTransactionCount EXCEPT ![c] = r.count]
           /\ Answer(c, "track", r.err)
    /\ query' = NoQuery(c)
    /\ UNCHANGED <<tx, upstream, panicked, rows, chain>>

\* A data command arrives and goes through SafeExec, all of it under Lock.
ExecDML(c) ==
    /\ ~panicked
    /\ UNCHANGED aside
    /\ pc[c] = "idle"
    /\ savepointNum < MaxSavepointNum
    /\ Chain(c, "dml")
    /\ IF ~tx
       THEN /\ panicked' = TRUE
            /\ last' = [conn |-> c, op |-> "dml", res |-> "panic",
                         undone |-> {}]
            /\ UNCHANGED <<upstream, pc>>
       ELSE \E r \in Rows :
              LET e == SafeExec(DB, <<Stmt("INSERT", <<"row", r>>)>>)
              IN  /\ SetUpstream(e.db)
                  /\ Answer(c, "dml", e.err)
                  /\ UNCHANGED panicked
    /\ UNCHANGED <<session, query, rows>>

\* A query arrives and goes through SafeQuery, which hands the open rows to
\* the handler after its deferred Unlock.
ExecSelect(c) ==
    /\ ~panicked
    /\ UNCHANGED aside
    /\ pc[c] = "idle"
    /\ savepointNum < MaxSavepointNum
    /\ Chain(c, "select")
    /\ IF ~tx
       THEN /\ panicked' = TRUE
            /\ last' = [conn |-> c, op |-> "select", res |-> "panic",
                         undone |-> {}]
            /\ UNCHANGED <<upstream, pc, rows>>
       ELSE \E k \in 0..2 :
              LET r == SafeQuery(DB, <<Stmt("SELECT", <<"sel", k>>)>>, c)
              IN  /\ SetUpstream(r.db)
                  /\ rows' = [rows EXCEPT ![c] = r.rows]
                  /\ IF r.err # "ok" THEN Answer(c, "select", r.err)
                     ELSE Goto(c, "select", "rows")
                  /\ UNCHANGED panicked
    /\ UNCHANGED <<session, query>>

\* guardedRows.Close, first half: Rows.Close() ends the reading of the
\* result and frees the upstream connection.  No lock is held.
RowsClose(c) ==
    /\ ~panicked
    /\ UNCHANGED aside
    /\ pc[c] = "rows"
    /\ busy' = IF busy = c THEN NoConn ELSE busy
    /\ Goto(c, "rowsClose", "guard")
    /\ UNCHANGED <<session, savepointNum, backend, panicked, query, rows,
                   chain>>

\* guardedRows.Close, second half: the guard is rolled back when Rows.Err()
\* reports an error and committed otherwise; what these return is only
\* logged.  No lock is held.
GuardFinish(c) ==
    /\ ~panicked
    /\ UNCHANGED aside
    /\ pc[c] = "guard"
    /\ LET r == IF rows[c].err # "ok"
                THEN NestedRollback(DB, rows[c].n)
                ELSE NestedCommit(DB, rows[c].n)
       IN  SetUpstream(r.db)
    /\ Answer(c, "guard", rows[c].err)
    /\ rows' = [rows EXCEPT ![c] = NoRows]
    /\ UNCHANGED <<session, panicked, query, chain>>

\* "pgrollback rollback" arrives: RollbackBaseTransaction, i.e. startNewTx.
FullRollback(c) ==
    /\ ~panicked
    /\ UNCHANGED aside
    /\ pc[c] = "idle"
    /\ Chain(c, "fullrollback")
    /\ LET r == startNewTx(DB, tx)
       IN  /\ SetUpstream(r.db)
           /\ tx' = r.tx
           /\ rows' = [o \in Conns |->
                         IF busy = o /\ ~r.db.b.alive
                         THEN [rows[o] EXCEPT !.err = "conn closed"]
                         ELSE rows[o]]
           /\ pc' = [pc EXCEPT ![c] = "idle"]
           /\ last' = [conn |-> c, op |-> "fullrollback", res |-> r.err,
                       undone |-> backend.data \ r.db.b.data]
    /\ UNCHANGED <<SavepointLevel, connectionWithOpenTx,
                   userOpenTransactionCount, panicked, query>>

\* The client of c is gone and the message loop has returned: the claim of
\* c is released, and the next client to connect gets a fresh connection.
ConnClosed(c, op, r) ==
    /\ connectionWithOpenTx' =
           releaseOpenTransactionLocked(connectionWithOpenTx, c)
    /\ userOpenTransactionCount' =
           [userOpenTransactionCount EXCEPT ![c] = 0]
    /\ discLeft' = [discLeft EXCEPT ![c] = 0]
    /\ discFrom' = [discFrom EXCEPT ![c] = NoDisconnect]
    /\ Answer(c, op, r)

\* Terminate or a closed socket: RollbackUserSavepointsOnDisconnect is called
\* with the connection's counter; nothing to do when the counter is 0.
Disconnect(c) ==
    /\ ~panicked
    /\ pc[c] = "idle"
    /\ LET n == userOpenTransactionCount[c]
       IN  /\ n > 0 => savepointNum + n <= MaxSavepointNum
           /\ IF n <= 0
              THEN /\ ConnClosed(c, "disconnect", "ok")
                   /\ UNCHANGED SavepointLevel
              ELSE /\ discLeft' = [discLeft EXCEPT ![c] = n]
                   /\ discFrom' = [discFrom EXCEPT ![c] =
                          [n |-> n, level |-> SavepointLevel,
                           sps |-> UserSavepoints(backend)]]
                   /\ Goto(c, "disconnect", "disc")
                   /\ UNCHANGED <<SavepointLevel, connectionWithOpenTx,
                                  userOpenTransactionCount>>
    /\ Chain(c, "disconnect")
    /\ UNCHANGED <<tx, upstream, panicked, query, rows, extended,
                   apart>>

\* The head of one pass of the loop, under Lock: leave at level 0 or after
\* count passes, else lower the level and name the savepoint.
DisconnectLevel(c) ==
    /\ ~panicked
    /\ pc[c] = "disc"
    /\ IF discLeft[c] = 0 \/ SavepointLevel <= 0
       THEN /\ ConnClosed(c, "disconnectLevel", "ok")
            /\ UNCHANGED <<SavepointLevel, query>>
       ELSE /\ SavepointLevel' = SavepointLevel - 1
            /\ query' = [query EXCEPT ![c] =
                            disconnectRollbackSql(SavepointLevel)]
            /\ Goto(c, "disconnectLevel", "discExec")
            /\ UNCHANGED <<connectionWithOpenTx, userOpenTransactionCount,
                           discLeft, discFrom>>
    /\ UNCHANGED <<tx, upstream, panicked, rows, chain, extended,
                   apart>>

\* The rest of the pass: SafeExecTCL; its error ends the loop.
DisconnectExec(c) ==
    /\ ~panicked
    /\ pc[c] = "discExec"
    /\ IF ~tx
       THEN /\ panicked' = TRUE
            /\ last' = [conn |-> c, op |-> "disconnectExec", res |-> "panic",
                         undone |-> {}]
            /\ UNCHANGED <<connectionWithOpenTx, userOpenTransactionCount,
                           upstream, pc, query, discLeft, discFrom>>
       ELSE LET r == SafeExecTCL(DB, query[c])
            IN  /\ SetUpstream(r.db)
                /\ query' = NoQuery(c)
                /\ IF r.err = "ok"
                   THEN /\ discLeft' = [discLeft EXCEPT ![c] = @ - 1]
                        /\ Goto(c, "disconnectExec", "disc")
                        /\ UNCHANGED <<connectionWithOpenTx,
                                       userOpenTransactionCount, discFrom>>
                   ELSE ConnClosed(c, "disconnectExec", r.err)
                /\ UNCHANGED panicked
    /\ UNCHANGED <<SavepointLevel, tx, rows, chain, extended,
                   apart>>

Next ==
    \/ \E c \in Conns : HandleBegin(c)
    \/ \E c \in Conns : BeginLevel(c)
    \/ \E c \in Conns : BeginName(c)
    \/ \E c \in Conns : Claim(c)
    \/ \E c \in Conns : HandleCommit(c)
    \/ \E c \in Conns : HandleRollback(c)
    \/ \E c \in Conns : ExecTCL(c)
    \/ \E c \in Conns : Track(c)
    \/ \E c \in Conns : ExecDML(c)
    \/ \E c \in Conns : ExecSelect(c)
    \/ \E c \in Conns : RowsClose(c)
    \/ \E c \in Conns : GuardFinish(c)
    \/ \E c \in Conns : FullRollback(c)
    \/ \E c \in Conns : Disconnect(c)
    \/ \E c \in Conns : DisconnectLevel(c)
    \/ \E c \in Conns : DisconnectExec(c)

Spec == Init /\ [][Next]_vars

\* ----------------------------------------------- extended-query messages
\* Parse: the query is stored under the statement name in the session and
\* ParseComplete is sent; nothing goes upstream.
Parse(c, n) ==
    /\ ~panicked
    /\ pc[c] = "idle"
    /\ preparedStatements' =
           SetPreparedStatement(preparedStatements, n,
                                InterceptQuery(PreparedSql(c)))
    /\ mine' = [mine EXCEPT ![c][n] = PreparedSql(c)]
    /\ Answer(c, "parse", "ok")
    /\ UNCHANGED <<session, upstream, panicked, query, rows, chain, apart,
                   discLeft, discFrom, portals, myPortal>>

\* Bind: the portal is pointed at the statement name; BindComplete.
Bind(c, q, n) ==
    /\ ~panicked
    /\ pc[c] = "idle"
    /\ portals' = BindPortal(portals, q, n)
    /\ myPortal' = [myPortal EXCEPT ![c][q] = n]
    /\ Answer(c, "bind", "ok")
    /\ UNCHANGED <<session, upstream, panicked, query, rows, chain, apart,
                   discLeft, discFrom, preparedStatements, mine>>

\* What running a prepared SELECT of a constant returns.
RunPrepared(sql) == ToString(sql[1].arg[2])

ErrPortalNotFound == "portal or statement not found"

\* Execute: portal -> statement -> query, and that query is run.
Execute(c, q) ==
    /\ ~panicked
    /\ pc[c] = "idle"
    /\ LET sql == QueryForPortal(preparedStatements, portals, q)
       IN  IF sql = NoSql THEN Answer(c, "execute", ErrPortalNotFound)
           ELSE Answer(c, "execute", RunPrepared(sql))
    /\ UNCHANGED <<session, upstream, panicked, query, rows, chain, aside>>

\* Close of a statement or a portal: removed from the session's map.
CloseMsg(c, t, n) ==
    /\ ~panicked
    /\ pc[c] = "idle"
    /\ LET r == CloseStatementOrPortal(preparedStatements, portals, t, n)
       IN  /\ preparedStatements' = r.m
           /\ portals' = r.pm
    /\ mine' = IF t = "S" THEN [mine EXCEPT ![c][n] = NoSql] ELSE mine
    /\ myPortal' = IF t = "P" THEN [myPortal EXCEPT ![c][n] = NoStmt]
                   ELSE myPortal
    /\ Answer(c, "close", "ok")
    /\ UNCHANGED <<session, upstream, panicked, query, rows, chain, apart,
                   discLeft, discFrom>>

\* Simple query DEALLOCATE <name>: not intercepted, forwarded as a command.
Deallocate(c, n) ==
    /\ ~panicked
    /\ pc[c] = "idle"
    /\ tx
    /\ savepointNum < MaxSavepointNum
    /\ LET e == SafeExec(DB, InterceptQuery(<<Stmt("DEALLOCATE", <<n, 0>>)>>))
       IN  /\ SetUpstream(e.db)
           /\ Answer(c, "deallocate", e.err)
    /\ UNCHANGED <<session, panicked, query, rows, chain, aside>>

\* Simple query DEALLOCATE ALL: likewise.
DeallocateAll(c) ==
    /\ ~panicked
    /\ pc[c] = "idle"
    /\ tx
    /\ savepointNum < MaxSavepointNum
    /\ LET e == SafeExec(DB, InterceptQuery(
                                 <<Stmt("DEALLOCATE", DeallocateAllName)>>))
       IN  /\ SetUpstream(e.db)
           /\ Answer(c, "deallocateAll", e.err)
    /\ UNCHANGED <<session, panicked, query, rows, chain, aside>>

NextExtended ==
    \/ \E c \in Conns, n \in StmtNames : Parse(c, n)
    \/ \E c \in Conns, q \in Portals, n \in StmtNames : Bind(c, q, n)
    \/ \E c \in Conns, q \in Portals : Execute(c, q)
    \/ \E c \in Conns, n \in StmtNames : CloseMsg(c, "S", n)
    \/ \E c \in Conns, q \in Portals : CloseMsg(c, "P", q)
    \/ \E c \in Conns, n \in StmtNames : Deallocate(c, n)
    \/ \E c \in Conns : DeallocateAll(c)

SpecExtended == Init /\ [][NextExtended]_vars

\* ------------------------------------------------------- session registry
\* What the registry's calls and the sessions seen from outside leave alone.
sessionState == <<session, upstream, panicked, pc, query, rows, last, chain,
                  discLeft, discFrom, extended, server, startup, history,
                  simpleQuery, later>>

Returned(op, t, e, n, found) ==
    rlast' = [op |-> op, id |-> t, res |-> e, ret |-> n, found |-> found,
              seen |-> {}]

\* GetOrCreateSession, p.mu.Lock().
GetOrCreateSessionLock(c, t) ==
    /\ rpc[c] = "idle"
    /\ TryLock(mu)
    /\ mu' = c
    /\ rpc' = [rpc EXCEPT ![c] = "lookup"]
    /\ rarg' = [rarg EXCEPT ![c] = t]
    /\ UNCHANGED <<sessionState, SessionsByTestID, pgConns, clock, rlast>>

\* GetOrCreateSession, the lookup: an existing session is touched and, with
\* a valid connection, returned; an invalid one is removed.
GetOrCreateSessionLookup(c) ==
    /\ rpc[c] = "lookup"
    /\ LET t == rarg[c]
       IN  IF t \in TestIDs /\ SessionsByTestID[t] # NoSession
           THEN LET ses == SessionsByTestID[t]
                IN  IF sessionValid(ses, pgConns)
                    THEN /\ SessionsByTestID' =
                               [SessionsByTestID EXCEPT
                                    ![t].LastActivity = clock]
                         /\ mu' = NoConn
                         /\ rpc' = [rpc EXCEPT ![c] = "idle"]
                         /\ rarg' = [rarg EXCEPT ![c] = ""]
                         /\ Returned("getOrCreate", t, NoErr, ses.id, TRUE)
                    ELSE /\ SessionsByTestID' =
                               [SessionsByTestID EXCEPT ![t] = NoSession]
                         /\ rpc' = [rpc EXCEPT ![c] = "create"]
                         /\ UNCHANGED <<mu, rarg, rlast>>
           ELSE /\ rpc' = [rpc EXCEPT ![c] = "create"]
                /\ UNCHANGED <<SessionsByTestID, mu, rarg, rlast>>
    /\ UNCHANGED <<sessionState, pgConns, clock>>

\* GetOrCreateSession, createNewSession and the store; the deferred Unlock.
GetOrCreateSessionCreate(c, connected) ==
    /\ rpc[c] = "create"
    /\ LET t == rarg[c]
       IN  /\ (t # "" /\ connected) =>
                 \E u \in UpstreamIds : pgConns[u].state = "none"
           /\ LET r == createNewSession(pgConns, t, clock, connected)
              IN  /\ pgConns' = r.ups
                  /\ SessionsByTestID' =
                        IF r.err = NoErr
                        THEN [SessionsByTestID EXCEPT ![t] = r.ses]
                        ELSE SessionsByTestID
                  /\ Returned("getOrCreate", t, r.err, r.ses.id, FALSE)
    /\ mu' = NoConn
    /\ rpc' = [rpc EXCEPT ![c] = "idle"]
    /\ rarg' = [rarg EXCEPT ![c] = ""]
    /\ UNCHANGED <<sessionState, clock>>

\* DestroySession, the whole call under p.mu.
Destroy(c, t) ==
    /\ rpc[c] = "idle"
    /\ TryLock(mu)
    /\ LET r == DestroySession(SessionsByTestID, pgConns, t)
       IN  /\ SessionsByTestID' = r.reg
           /\ pgConns' = r.ups
           /\ Returned("destroy", t, r.err, 0, FALSE)
    /\ UNCHANGED <<sessionState, mu, clock, rpc, rarg>>

\* CleanupExpiredSessions, the whole call under p.mu.
Cleanup(c) ==
    /\ rpc[c] = "idle"
    /\ TryLock(mu)
    /\ LET r == CleanupExpiredSessions(SessionsByTestID, pgConns, clock)
       IN  /\ SessionsByTestID' = r.reg
           /\ pgConns' = r.ups
           /\ Returned("cleanup", "", NoErr, r.cleaned, FALSE)
    /\ UNCHANGED <<sessionState, mu, clock, rpc, rarg>>

\* The session of test id t can take a command: GetSession finds it and its
\* connection is open, in its transaction, with no result set being read.
Usable(t) ==
    /\ TryLock(mu)
    /\ SessionsByTestID[t] # NoSession
    /\ LET up == pgConns[SessionsByTestID[t].id]
       IN  up.state = "open" /\ up.txOpen /\ ~up.reading

\* A client of test id t writes a row through its session.
SessionWrite(c, t, v) ==
    /\ rpc[c] = "idle"
    /\ Usable(t)
    /\ pgConns' = [pgConns EXCEPT ![SessionsByTestID[t].id].data =
                                      @ \cup {<<t, v>>}]
    /\ UNCHANGED <<sessionState, SessionsByTestID, mu, clock, rpc, rarg,
                   rlast>>

\* A client of test id t queries through its session and starts reading.
SessionQuery(c, t) ==
    /\ rpc[c] = "idle"
    /\ Usable(t)
    /\ pgConns' = [pgConns EXCEPT ![SessionsByTestID[t].id].reading = TRUE]
    /\ rlast' = [op |-> "query", id |-> t, res |-> NoErr, ret |-> 0,
                 found |-> FALSE,
                 seen |-> Visible(pgConns[SessionsByTestID[t].id])]
    /\ UNCHANGED <<sessionState, SessionsByTestID, mu, clock, rpc, rarg>>

\* The result set read from an upstream is closed.
SessionRowsClose(u) ==
    /\ pgConns[u].reading
    /\ pgConns' = [pgConns EXCEPT ![u].reading = FALSE]
    /\ UNCHANGED <<sessionState, SessionsByTestID, mu, clock, rpc, rarg,
                   rlast>>

\* PostgreSQL or the network ends an upstream connection; its transaction
\* is gone with it, the proxy still holds the connection object.
UpstreamDies(u, e) ==
    /\ pgConns[u].state = "open"
    /\ pgConns' = [pgConns EXCEPT ![u].state = "dead", ![u].err = e,
                                  ![u].reading = FALSE, ![u].data = {}]
    /\ UNCHANGED <<sessionState, SessionsByTestID, mu, clock, rpc, rarg,
                   rlast>>

Tick ==
    /\ clock < MaxTime
    /\ clock' = clock + 1
    /\ UNCHANGED <<sessionState, SessionsByTestID, pgConns, mu, rpc, rarg,
                   rlast>>

NextRegistry ==
    \/ \E c \in Conns, t \in TestIDArgs : GetOrCreateSessionLock(c, t)
    \/ \E c \in Conns : GetOrCreateSessionLookup(c)
    \/ \E c \in Conns, connected \in BOOLEAN :
           GetOrCreateSessionCreate(c, connected)
    \/ \E c \in Conns, t \in TestIDArgs : Destroy(c, t)
    \/ \E c \in Conns : Cleanup(c)
    \/ \E c \in Conns, t \in TestIDs : SessionWrite(c, t, 1)
    \/ \E c \in Conns, t \in TestIDs : SessionQuery(c, t)
    \/ \E u \in UpstreamIds : SessionRowsClose(u)
    \/ \E u \in UpstreamIds, e \in DeadErrors : UpstreamDies(u, e)
    \/ Tick

SpecRegistry == Init /\ [][NextRegistry]_vars

\* ------------------------------------------------------------------ Server
\* What the server's goroutines leave alone.
served == <<session, upstream, panicked, pc, query, rows, last, chain,
            discLeft, discFrom, extended, registry, startup, history,
            simpleQuery, later>>

\* acceptConnections: listener.Accept() returns the next client socket.
Accept(k) ==
    /\ acceptor.pc = "accept"
    /\ listening
    /\ sockets[k] = "unborn"
    /\ \A j \in Sockets : j < k => sockets[j] # "unborn"
    /\ sockets' = [sockets EXCEPT ![k] = "open"]
    /\ acceptor' = [pc |-> "accepted", conn |-> k]
    /\ UNCHANGED <<served, listener, listening, handler, activeConns, wg,
                   stopPc, stopConns>>

\* acceptConnections: Accept fails on the closed listener and, s.listener
\* being nil, the loop returns.
AcceptClosed ==
    /\ acceptor.pc = "accept"
    /\ ~listening
    /\ ~listener
    /\ acceptor' = [pc |-> "returned", conn |-> 0]
    /\ UNCHANGED <<served, listener, listening, sockets, handler, activeConns,
                   wg, stopPc, stopConns>>

\* acceptConnections: s.wg.Add(1); go s.handleConnection(conn), or, when the
\* peek of the first bytes read nothing, conn.Close().
Dispatch(peeked) ==
    /\ acceptor.pc = "accepted"
    /\ IF peeked
       THEN /\ wg' = wg + 1
            /\ handler' = [handler EXCEPT ![acceptor.conn] = "started"]
            /\ UNCHANGED sockets
       ELSE /\ sockets' = [sockets EXCEPT ![acceptor.conn] = "closed"]
            /\ UNCHANGED <<wg, handler>>
    /\ acceptor' = [pc |-> "accept", conn |-> 0]
    /\ UNCHANGED <<served, listener, listening, activeConns, stopPc,
                   stopConns>>

\* handleConnection: addActiveConn.
HandlerAdd(k) ==
    /\ handler[k] = "started"
    /\ activeConns' = activeConns \cup {k}
    /\ handler' = [handler EXCEPT ![k] = "serving"]
    /\ UNCHANGED <<served, listener, listening, sockets, acceptor, wg, stopPc,
                   stopConns>>

\* handleConnection returns: a read failed (the socket was closed, the
\* client hung up, the deadline passed) or the client terminated; the
\* deferred removeActiveConn, clientConn.Close() and wg.Done() run.
HandlerReturn(k) ==
    /\ handler[k] = "serving"
    /\ activeConns' = activeConns \ {k}
    /\ sockets' = [sockets EXCEPT ![k] = "closed"]
    /\ wg' = wg - 1
    /\ handler' = [handler EXCEPT ![k] = "returned"]
    /\ UNCHANGED <<served, listener, listening, acceptor, stopPc, stopConns>>

\* Stop, under s.mu: forget the listener and copy the active connections.
StopLocked ==
    /\ stopPc = "idle"
    /\ IF listener
       THEN /\ listener' = FALSE
            /\ stopConns' = activeConns
            /\ stopPc' = "closeListener"
       ELSE /\ stopPc' = "wait"
            /\ UNCHANGED <<listener, stopConns>>
    /\ UNCHANGED <<served, listening, sockets, acceptor, handler, activeConns,
                   wg>>

\* Stop: listener.Close() and the shutdown of the admin surface.
StopCloseListener ==
    /\ stopPc = "closeListener"
    /\ listening' = FALSE
    /\ stopPc' = "closeConns"
    /\ UNCHANGED <<served, listener, sockets, acceptor, handler, activeConns,
                   wg, stopConns>>

\* Stop: close every connection of the copy.
StopCloseConns ==
    /\ stopPc = "closeConns"
    /\ sockets' = [k \in Sockets |->
                      IF k \in stopConns THEN "closed" ELSE sockets[k]]
    /\ stopPc' = "wait"
    /\ UNCHANGED <<served, listener, listening, acceptor, handler,
                   activeConns, wg, stopConns>>

\* Stop: s.wg.Wait() returns when the counter is zero.
StopWait ==
    /\ stopPc = "wait"
    /\ wg = 0
    /\ stopPc' = "returned"
    /\ UNCHANGED <<served, listener, listening, sockets, acceptor, handler,
                   activeConns, wg, stopConns>>

NextServer ==
    \/ \E k \in Sockets : Accept(k)
    \/ AcceptClosed
    \/ \E peeked \in BOOLEAN : Dispatch(peeked)
    \/ \E k \in Sockets : HandlerAdd(k)
    \/ \E k \in Sockets : HandlerReturn(k)
    \/ StopLocked
    \/ StopCloseListener
    \/ StopCloseConns
    \/ StopWait

SpecServer == Init /\ [][NextServer]_vars

\* ------------------------------------------------------- handleConnection
notStartup == <<session, upstream, panicked, pc, query, rows, last, chain,
                discLeft, discFrom, extended, registry, server, history,
                simpleQuery, later>>

\* A client connects and sends its first packet; app is the
\* application_name of its StartupMessage, password whether it will answer
\* the password request.
ClientConnect(length, code, app, password) ==
    /\ startup.pc \in {"none", "closed"}
    /\ startup' = [NoSocket EXCEPT !.pc = "first", !.length = length,
                                   !.code = code, !.app = app,
                                   !.password = password]
    /\ UNCHANGED notStartup

\* handleConnection: the length is read; with length 8 the code is read and
\* an SSLRequest is answered 'N', after which the client sends its
\* StartupMessage; everything else is put back for the backend to parse.
HandleFirst ==
    /\ startup.pc = "first"
    /\ IF startup.length = 8 /\ isSSLRequest(startup.code)
       THEN startup' = [startup EXCEPT !.pc = "receive",
                                       !.sent = Append(@, "SSLResponse N"),
                                       !.packet = <<40, ProtocolVersion>>]
       ELSE startup' = [startup EXCEPT !.pc = "receive",
                                       !.packet = <<startup.length,
                                                    startup.code>>]
    /\ UNCHANGED notStartup

\* processConnectionStartupMessage up to the password request: the startup
\* packet is received; an error ends the handler, which closes the socket;
\* otherwise the test id is extracted and the password is requested.
ReceiveStartup ==
    /\ startup.pc = "receive"
    /\ LET m == ReceiveStartupMessage(startup.packet[1], startup.packet[2])
           params == IF m = "StartupMessage" THEN startup.app ELSE << >>
       IN  IF m = "error"
           THEN startup' = [startup EXCEPT !.pc = "closed", !.got = m]
           ELSE startup' =
                   [startup EXCEPT
                       !.pc = "password", !.got = m,
                       !.testID = ExtractTestID(params),
                       !.sent = Append(@, "AuthenticationCleartextPassword")]
    /\ UNCHANGED notStartup

\* processConnectionStartupMessage from the password on: without a
\* password message the handler ends; GetOrCreateSession fails or the
\* client is told AuthenticationOK and the proxy loop starts.
ReceivePassword(created) ==
    /\ startup.pc = "password"
    /\ IF ~startup.password
       THEN startup' = [startup EXCEPT !.pc = "closed"]
       ELSE IF ~created
       THEN startup' = [startup EXCEPT !.pc = "closed",
                                       !.sent = Append(@, "ErrorResponse")]
       ELSE startup' = [startup EXCEPT !.pc = "proxy",
                                       !.sent = Append(@, "AuthenticationOK")]
    /\ UNCHANGED notStartup

\* The proxy loop ends and the deferred Close runs.
ProxyReturn ==
    /\ startup.pc = "proxy"
    /\ startup' = [startup EXCEPT !.pc = "closed"]
    /\ UNCHANGED notStartup

NextStartup ==
    \/ \E length \in FirstLengths, code \in FirstCodes, app \in AppNames,
          password \in BOOLEAN : ClientConnect(length, code, app, password)
    \/ HandleFirst
    \/ ReceiveStartup
    \/ \E created \in BOOLEAN : ReceivePassword(created)
    \/ ProxyReturn

SpecStartup == Init /\ [][NextStartup]_vars

\* ------------------------------------------------------- simple query flow
notSimple == <<session, upstream, panicked, pc, query, rows, last, chain,
               discLeft, discFrom, extended, registry, server, startup,
               history, later>>

\* The client sends a Query message with these statements.
ClientQuery(kinds) ==
    /\ simpleQuery.pc # "received"
    /\ simpleQuery' = [NoMessage EXCEPT !.pc = "received",
                                         !.statements = kinds]
    /\ UNCHANGED notSimple

\* RunMessageLoop, case Query: ProcessSimpleQuery, and SendErrorResponse when
\* it returns an error.
RunMessageLoopQuery(sessionThere, intercepted, res, hasTx, flushOk) ==
    /\ simpleQuery.pc = "received"
    /\ LET r == ProcessSimpleQuery(sessionThere, intercepted,
                                   simpleQuery.statements, res, hasTx, flushOk)
       IN  simpleQuery' =
             [simpleQuery EXCEPT !.pc = "answered", !.failed = r.err,
                !.intercepted = intercepted,
                !.wire = IF r.err THEN SendErrorResponse(r.out) ELSE r.out]
    /\ UNCHANGED notSimple

NextSimpleQuery ==
    \/ \E kinds \in Statements : ClientQuery(kinds)
    \/ \E sessionThere \in BOOLEAN, intercepted \in Intercepted,
          hasTx \in BOOLEAN, flushOk \in BOOLEAN :
         \E res \in Outcomes(Len(simpleQuery.statements)) :
           RunMessageLoopQuery(sessionThere, intercepted, res, hasTx, flushOk)

SpecSimpleQuery == Init /\ [][NextSimpleQuery]_vars

\* ------------------------------------------------- restart of the base tx
notRestart == <<session, upstream, panicked, pc, query, rows, last, chain,
                discLeft, discFrom, extended, registry, server, startup,
                history, simpleQuery, commandAt, closing, status, accepting>>

\* startNewTx, under d.mu.Lock(): d.tx.Rollback, whose error is only logged,
\* and d.tx = nil.  A rollback that cannot be sent closes the connection.
StartNewTxRollback(c) ==
    /\ restart.mu = NoConn
    /\ restart.at[c] = "idle"
    /\ restart' =
         [restart EXCEPT
            !.mu = c, !.at[c] = "rolledBack", !.tx = FALSE,
            !.inTx = IF restart.tx /\ Reaches(restart) THEN FALSE ELSE @,
            !.alive = IF restart.tx /\ ~Reaches(restart) THEN FALSE ELSE @,
            !.reading = IF restart.tx /\ ~Reaches(restart) THEN NoConn ELSE @]
    /\ UNCHANGED notRestart

\* startNewTx, still under the lock: conn.Exec("ROLLBACK"); its error ends
\* the function.
StartNewTxExec(c) ==
    /\ restart.at[c] = "rolledBack"
    /\ IF Reaches(restart)
       THEN restart' = [restart EXCEPT !.at[c] = "cleared", !.inTx = FALSE]
       ELSE restart' = [restart EXCEPT !.at[c] = "idle", !.mu = NoConn,
                                       !.err = ErrConnClosed]
    /\ UNCHANGED notRestart

\* startNewTx, still under the lock: conn.Begin, d.tx = tx, and the deferred
\* Unlock.
StartNewTxBegin(c) ==
    /\ restart.at[c] = "cleared"
    /\ IF Reaches(restart)
       THEN restart' = [restart EXCEPT !.at[c] = "idle", !.mu = NoConn,
                                       !.tx = TRUE, !.inTx = TRUE,
                                       !.err = NoErr]
       ELSE restart' = [restart EXCEPT !.at[c] = "idle", !.mu = NoConn,
                                       !.err = ErrConnClosed]
    /\ UNCHANGED notRestart

\* SafeExec of a data command, all of it under d.mu.Lock(): guard, command,
\* release.
RestartSafeExec(c) ==
    /\ restart.mu = NoConn
    /\ restart.at[c] = "idle"
    /\ restart.tx
    /\ restart' = IF Reaches(restart) THEN Ran(restart, c, "INSERT")
                  ELSE restart
    /\ UNCHANGED notRestart

\* SafeQuery, under d.mu.Lock(): guard and query; the rows are handed to the
\* caller open, after the deferred Unlock.
RestartSafeQuery(c) ==
    /\ restart.mu = NoConn
    /\ restart.at[c] = "idle"
    /\ restart.tx
    /\ IF Reaches(restart)
       THEN restart' = [Ran(restart, c, "SELECT") EXCEPT !.at[c] = "rows",
                                                         !.reading = c]
       ELSE restart' = restart
    /\ UNCHANGED notRestart

\* guardedRows.Close, first half, no lock held: Rows.Close().
RestartRowsClose(c) ==
    /\ restart.at[c] = "rows"
    /\ restart' = [restart EXCEPT !.at[c] = "guard",
                      !.reading = IF @ = c THEN NoConn ELSE @]
    /\ UNCHANGED notRestart

\* guardedRows.Close, second half, no lock held: the guard's RELEASE or
\* ROLLBACK TO is sent on the connection.
RestartGuardFinish(c) ==
    /\ restart.at[c] = "guard"
    /\ restart' =
         [(IF Reaches(restart) THEN Ran(restart, c, "RELEASE") ELSE restart)
            EXCEPT !.at[c] = "idle"]
    /\ UNCHANGED notRestart

NextRestart ==
    \/ \E c \in Conns : StartNewTxRollback(c)
    \/ \E c \in Conns : StartNewTxExec(c)
    \/ \E c \in Conns : StartNewTxBegin(c)
    \/ \E c \in Conns : RestartSafeExec(c)
    \/ \E c \in Conns : RestartSafeQuery(c)
    \/ \E c \in Conns : RestartRowsClose(c)
    \/ \E c \in Conns : RestartGuardFinish(c)

SpecRestart == Init /\ [][NextRestart]_vars

\* ------------------------------------------- activity and expiry
\* Clients connect (GetOrCreateSession), send commands on their session
\* (ProcessSimpleQuery, which finds the session with GetSession) and
\* CleanupExpiredSessions runs, while time passes.

notActivity == <<session, upstream, panicked, pc, query, rows, last, chain,
                 discLeft, discFrom, extended, server, startup, history,
                 simpleQuery, restart, closing, status, accepting>>

\* ProcessSimpleQuery: GetSession(testID), then the command is executed on
\* the session's upstream.
ClientCommand(c, t, v) ==
    /\ rpc[c] = "idle"
    /\ Usable(t)
    /\ pgConns' = [pgConns EXCEPT ![SessionsByTestID[t].id].data =
                                      @ \cup {<<t, v>>}]
    /\ commandAt' = [commandAt EXCEPT ![t] =
                        [at |-> clock, id |-> SessionsByTestID[t].id]]
    /\ rlast' = [op |-> "command", id |-> t, res |-> NoErr, ret |-> 0,
                 found |-> TRUE, seen |-> {}]
    /\ UNCHANGED <<notActivity, SessionsByTestID, mu, clock, rpc, rarg>>

NextActivity ==
    \/ \E c \in Conns, t \in TestIDArgs : GetOrCreateSessionLock(c, t)
    \/ \E c \in Conns : GetOrCreateSessionLookup(c)
    \/ \E c \in Conns, connected \in BOOLEAN :
           GetOrCreateSessionCreate(c, connected)
    \/ \E c \in Conns : Cleanup(c)
    \/ \E c \in Conns, t \in TestIDs : ClientCommand(c, t, 1)
    \/ Tick

SpecActivity == Init /\ [][NextActivity]_vars

\* ------------------------------------------------- closing a session
\* One session from createNewSession to the end of DestroySession or
\* CleanupExpiredSessions: realSessionDB.mu (closing.mu: who holds it), the
\* keepalive goroutine of startKeepalive (closing.pinger: "select" at its
\* select, "lock" in d.mu.Lock(), "ping" under the lock, "done" after
\* close(done)), the clients' guarded commands, and the closing call in its
\* steps (closing.closer).

notClosing == <<session, upstream, panicked, pc, query, rows, last, chain,
                discLeft, discFrom, extended, registry, server, startup,
                history, simpleQuery, restart, commandAt, status, accepting>>

\* Pings counted by the model.
MaxPings == 1

\* createNewSession: the session, and startKeepalive when
\* p.KeepaliveInterval > 0.
CreateNewSession(keepalive) ==
    /\ closing.session = "none"
    /\ closing' = [closing EXCEPT !.session = "open",
                       !.pinger = IF keepalive THEN "select" ELSE "none"]
    /\ UNCHANGED notClosing

\* The goroutine's select takes case <-ticker.C.
KeepaliveTick ==
    /\ closing.pinger = "select"
    /\ closing.pings < MaxPings
    /\ closing' = [closing EXCEPT !.pinger = "lock", !.pings = @ + 1]
    /\ UNCHANGED notClosing

\* d.mu.Lock() of the goroutine.
KeepaliveLock ==
    /\ closing.pinger = "lock"
    /\ closing.mu = "free"
    /\ closing' = [closing EXCEPT !.pinger = "ping", !.mu = "pinger"]
    /\ UNCHANGED notClosing

\* d.conn.Ping, which ends after 20 seconds at the latest, and d.mu.Unlock().
KeepalivePing ==
    /\ closing.pinger = "ping"
    /\ closing' = [closing EXCEPT !.pinger = "select", !.mu = "free"]
    /\ UNCHANGED notClosing

\* The goroutine's select takes case <-ctx.Done(): return, close(done).
KeepaliveDone ==
    /\ closing.pinger = "select"
    /\ closing.cancelled
    /\ closing' = [closing EXCEPT !.pinger = "done"]
    /\ UNCHANGED notClosing

\* A client's command: SafeExec takes d.mu ...
SafeExecLock(c) ==
    /\ closing.session = "open"
    /\ closing.client[c] = "idle"
    /\ closing.mu = "free"
    /\ closing' = [closing EXCEPT !.client[c] = "exec", !.mu = "client"]
    /\ UNCHANGED notClosing

\* ... and gives it back when the backend has answered.
SafeExecUnlock(c) ==
    /\ closing.client[c] = "exec"
    /\ closing' = [closing EXCEPT !.client[c] = "idle", !.mu = "free"]
    /\ UNCHANGED notClosing

\* DestroySession or CleanupExpiredSessions reaches session.DB.rollbackTx.
CallClose(by) ==
    /\ closing.session = "open"
    /\ closing.closer = "idle"
    /\ closing' = [closing EXCEPT !.closer = "rollbackTx", !.by = by]
    /\ UNCHANGED notClosing

\* rollbackTx: d.mu.Lock().
RollbackTxLock ==
    /\ closing.closer = "rollbackTx"
    /\ closing.mu = "free"
    /\ closing' = [closing EXCEPT !.closer = "rollingBack", !.mu = "closer"]
    /\ UNCHANGED notClosing

\* rollbackTx: d.tx.Rollback, d.tx = nil, the deferred Unlock.
RollbackTxUnlock ==
    /\ closing.closer = "rollingBack"
    /\ closing' = [closing EXCEPT !.closer = "close", !.mu = "free"]
    /\ UNCHANGED notClosing

\* close: d.mu.Lock().
CloseLock ==
    /\ closing.closer = "close"
    /\ closing.mu = "free"
    /\ closing' = [closing EXCEPT !.closer = "locked", !.mu = "closer"]
    /\ UNCHANGED notClosing

\* close: d.stopKeepalive() when there is one, which is cancel() and then
\* the wait for done.
CloseStopKeepalive ==
    /\ closing.closer = "locked"
    /\ closing' = IF closing.pinger = "none"
                  THEN [closing EXCEPT !.closer = "stopped"]
                  ELSE [closing EXCEPT !.closer = "waitDone",
                                       !.cancelled = TRUE]
    /\ UNCHANGED notClosing

\* close: <-done returns once the goroutine has closed the channel.
CloseWaitDone ==
    /\ closing.closer = "waitDone"
    /\ closing.pinger = "done"
    /\ closing' = [closing EXCEPT !.closer = "stopped"]
    /\ UNCHANGED notClosing

\* close: the rollback, conn.Close and the deferred Unlock; the caller
\* deletes the session and returns.
CloseFinish ==
    /\ closing.closer = "stopped"
    /\ closing' = [closing EXCEPT !.closer = "returned", !.mu = "free",
                                  !.session = "closed"]
    /\ UNCHANGED notClosing

NextClose ==
    \/ \E keepalive \in BOOLEAN : CreateNewSession(keepalive)
    \/ KeepaliveTick
    \/ KeepaliveLock
    \/ KeepalivePing
    \/ KeepaliveDone
    \/ \E c \in Conns : SafeExecLock(c)
    \/ \E c \in Conns : SafeExecUnlock(c)
    \/ \E by \in {"destroy", "cleanup"} : CallClose(by)
    \/ RollbackTxLock
    \/ RollbackTxUnlock
    \/ CloseLock
    \/ CloseStopKeepalive
    \/ CloseWaitDone
    \/ CloseFinish

\* Every goroutine that can take its next step takes it: the keepalive
\* goroutine, SafeExec once it holds the lock, and the closing call.  When
\* the ticker fires, when a client sends a command and when a session is
\* destroyed is left open.
SpecClose ==
    /\ Init
    /\ [][NextClose]_vars
    /\ WF_vars(KeepaliveLock)
    /\ WF_vars(KeepalivePing)
    /\ WF_vars(KeepaliveDone)
    /\ \A c \in Conns : WF_vars(SafeExecUnlock(c))
    /\ SF_vars(RollbackTxLock)
    /\ WF_vars(RollbackTxUnlock)
    /\ SF_vars(CloseLock)
    /\ WF_vars(CloseStopKeepalive)
    /\ WF_vars(CloseWaitDone)
    /\ WF_vars(CloseFinish)

\* -------------------------------------------------- pgrollback status
\* realSessionDB.mu is a sync.RWMutex.  A writer's Lock() first announces
\* itself, which makes every later RLock() wait, and then waits for the
\* readers that hold the lock to leave; writers exclude each other.
\* status.reader is where buildStatusResultSet stands, status.writer where
\* each connection's SafeExecTCL stands.

notStatus == <<session, upstream, panicked, pc, query, rows, last, chain,
               discLeft, discFrom, extended, registry, server, startup,
               history, simpleQuery, restart, commandAt, closing, accepting>>

\* `pgrollback status` commands counted by the model.
MaxStatus == 2

WriterAnnounced(st) ==
    \E c \in Conns : st.writer[c] \in {"announced", "holding"}

\* sync.RWMutex.RLock returns: no writer has announced itself.
RLock(st) == ~WriterAnnounced(st)

\* `pgrollback status` arrives: buildStatusResultSet is called.
StatusCall ==
    /\ status.reader \in {"idle", "returned"}
    /\ status.asked < MaxStatus
    /\ status' = [status EXCEPT !.reader = "rlock", !.active = "-",
                                !.asked = @ + 1]
    /\ UNCHANGED notStatus

\* buildStatusResultSet: d.mu.RLock().
StatusRLock ==
    /\ status.reader = "rlock"
    /\ RLock(status)
    /\ status' = [status EXCEPT !.reader = "outer", !.readers = @ + 1]
    /\ UNCHANGED notStatus

\* HasActiveTransaction: d.mu.RLock() again, under the first.
HasActiveTransactionRLock ==
    /\ status.reader = "outer"
    /\ RLock(status)
    /\ status' = [status EXCEPT !.reader = "inner", !.readers = @ + 1]
    /\ UNCHANGED notStatus

\* HasActiveTransaction: d.tx != nil and the deferred RUnlock.
HasActiveTransactionReturn ==
    /\ status.reader = "inner"
    /\ status' = [status EXCEPT !.reader = "read", !.readers = @ - 1,
                                !.active = "t"]
    /\ UNCHANGED notStatus

\* buildStatusResultSet: the level is read, d.mu.RUnlock(), the result.
StatusReturn ==
    /\ status.reader = "read"
    /\ status' = [status EXCEPT !.reader = "returned", !.readers = @ - 1,
                                !.seen = status.level]
    /\ UNCHANGED notStatus

\* A connection's BEGIN or COMMIT reaches SafeExecTCL: d.mu.Lock() is called.
WriterCall(c) ==
    /\ status.writer[c] = "idle"
    /\ status' = [status EXCEPT !.writer[c] = "lock"]
    /\ UNCHANGED notStatus

\* Lock(): the writer announces itself once no other writer is ahead.
WriterAnnounce(c) ==
    /\ status.writer[c] = "lock"
    /\ ~WriterAnnounced(status)
    /\ status' = [status EXCEPT !.writer[c] = "announced"]
    /\ UNCHANGED notStatus

\* Lock() returns: the readers have left.
WriterAcquire(c) ==
    /\ status.writer[c] = "announced"
    /\ status.readers = 0
    /\ status' = [status EXCEPT !.writer[c] = "holding"]
    /\ UNCHANGED notStatus

\* The command runs, the tracking moves the level, and d.mu.Unlock().
WriterUnlock(c) ==
    /\ status.writer[c] = "holding"
    /\ status' = [status EXCEPT !.writer[c] = "idle",
                                !.level = 1 - status.level]
    /\ UNCHANGED notStatus

NextStatus ==
    \/ StatusCall
    \/ StatusRLock
    \/ HasActiveTransactionRLock
    \/ HasActiveTransactionReturn
    \/ StatusReturn
    \/ \E c \in Conns : WriterCall(c)
    \/ \E c \in Conns : WriterAnnounce(c)
    \/ \E c \in Conns : WriterAcquire(c)
    \/ \E c \in Conns : WriterUnlock(c)

\* Every goroutine takes the step it can take, and a goroutine waiting in
\* RLock() or Lock() gets the lock if it is free again and again.  When the
\* commands arrive is left open.
SpecStatus ==
    /\ Init
    /\ [][NextStatus]_vars
    /\ SF_vars(StatusRLock)
    /\ SF_vars(HasActiveTransactionRLock)
    /\ WF_vars(HasActiveTransactionReturn)
    /\ WF_vars(StatusReturn)
    /\ \A c \in Conns : SF_vars(WriterAnnounce(c))
    /\ \A c \in Conns : SF_vars(WriterAcquire(c))
    /\ \A c \in Conns : WF_vars(WriterUnlock(c))

\* ------------------------------------------- accept loop and Stop
\* acceptConnections in its steps beside Stop: accepting.listener is
\* s.listener # nil, accepting.open the listening socket, accepting.gui the
\* admin listener's channel ("none" without the GUI), accepting.loop where
\* the loop stands ("call" before s.listener.Accept(), "blocked" inside it,
\* "accepted" with a connection in hand, "push" before guiListener.Push).

notAccepting == <<session, upstream, panicked, pc, query, rows, last, chain,
                  discLeft, discFrom, extended, registry, server, startup,
                  history, simpleQuery, restart, commandAt, closing, status>>

\* Clients that connect.
MaxClients == 3

PanicNilListener == "nil pointer dereference"

PanicClosedChannel == "send on closed channel"

\* StartServer: the listener, the admin listener when withGUI, and
\* go acceptConnections().
StartServer(withGUI) ==
    /\ accepting.loop = "none"
    /\ accepting' = [accepting EXCEPT !.listener = TRUE, !.open = TRUE,
                         !.gui = IF withGUI THEN "open" ELSE "none",
                         !.loop = "call"]
    /\ UNCHANGED notAccepting

\* A client connects to the listening socket.
ClientDials ==
    /\ accepting.open
    /\ accepting.waiting + accepting.handled + accepting.pushed
          + (IF accepting.conn = "-" THEN 0 ELSE 1) < MaxClients
    /\ accepting' = [accepting EXCEPT !.waiting = @ + 1]
    /\ UNCHANGED notAccepting

\* The loop evaluates s.listener.Accept(): the field is read with no lock
\* held, and the call of a method on the nil interface panics.
LoopCall ==
    /\ accepting.loop = "call"
    /\ accepting' = IF accepting.listener
                    THEN [accepting EXCEPT !.loop = "blocked"]
                    ELSE [accepting EXCEPT !.loop = "crashed",
                                           !.panic = PanicNilListener]
    /\ UNCHANGED notAccepting

\* Accept returns a connection.
LoopAccept ==
    /\ accepting.loop = "blocked"
    /\ accepting.open
    /\ accepting.waiting > 0
    /\ accepting' = [accepting EXCEPT !.loop = "accepted", !.conn = "?",
                                      !.waiting = @ - 1]
    /\ UNCHANGED notAccepting

\* Accept fails on the closed listener; s.listener is nil by then and the
\* loop returns.
LoopAcceptError ==
    /\ accepting.loop = "blocked"
    /\ ~accepting.open
    /\ accepting' = [accepting EXCEPT
                        !.loop = IF ~accepting.listener THEN "returned"
                                 ELSE "call"]
    /\ UNCHANGED notAccepting

\* The connection in hand: without the GUI a handler is started; with it the
\* first bytes are read (up to 2 s) and an HTTP request goes to the admin
\* listener, anything else to a handler, nothing read closes the socket.
LoopPeek(first) ==
    /\ accepting.loop = "accepted"
    /\ accepting.gui = "none" => first = "pg"
    /\ accepting' = IF first = "http"
                    THEN [accepting EXCEPT !.loop = "push", !.conn = "http"]
                    ELSE [accepting EXCEPT !.loop = "call", !.conn = "-",
                             !.handled = @ + 1]
    /\ UNCHANGED notAccepting

\* s.guiListener.Push(wrapped): select { case l.ch <- conn: ... default: }.
\* A send on a closed channel panics.
LoopPush ==
    /\ accepting.loop = "push"
    /\ accepting' = IF accepting.gui = "closed"
                    THEN [accepting EXCEPT !.loop = "crashed",
                                           !.panic = PanicClosedChannel]
                    ELSE [accepting EXCEPT !.loop = "call", !.conn = "-",
                                           !.pushed = @ + 1]
    /\ UNCHANGED notAccepting

\* Stop, under s.mu: s.listener = nil.
StopClearListener ==
    /\ accepting.loop # "none"
    /\ accepting.stop = "idle"
    /\ accepting' = IF accepting.listener
                    THEN [accepting EXCEPT !.listener = FALSE,
                                           !.stop = "closeListener"]
                    ELSE [accepting EXCEPT !.stop = "returned"]
    /\ UNCHANGED notAccepting

\* Stop: listener.Close().
StopListenerClose ==
    /\ accepting.stop = "closeListener"
    /\ accepting' = [accepting EXCEPT !.open = FALSE, !.waiting = 0,
                                      !.stop = "closeGui"]
    /\ UNCHANGED notAccepting

\* Stop: s.guiListener.Close(), which closes done and ch; then the
\* connections are closed and the handlers awaited.
StopGuiClose ==
    /\ accepting.stop = "closeGui"
    /\ accepting' = [accepting EXCEPT
                        !.gui = IF @ = "none" THEN "none" ELSE "closed",
                        !.stop = "returned"]
    /\ UNCHANGED notAccepting

NextAccept ==
    \/ \E withGUI \in BOOLEAN : StartServer(withGUI)
    \/ ClientDials
    \/ LoopCall
    \/ LoopAccept
    \/ LoopAcceptError
    \/ \E first \in {"http", "pg", "none"} : LoopPeek(first)
    \/ LoopPush
    \/ StopClearListener
    \/ StopListenerClose
    \/ StopGuiClose

SpecAccept == Init /\ [][NextAccept]_vars

\* ------------------------------------------------ savepoints of the client
\* SAVEPOINT, RELEASE SAVEPOINT and ROLLBACK TO SAVEPOINT sent by the client
\* under names of its own, beside BEGIN, COMMIT, ROLLBACK, data commands and
\* queries of the session.

\* A name without the reserved prefix.
PlainNames == {<<"a", 0>>}

\* A name with the reserved prefix that is never the name of a level.
StrayNames == {<<pgrollbackSavepointPrefix, 9>>}

ClientNames == PlainNames \cup StrayNames

SavepointOps == {"SAVEPOINT", "RELEASE", "ROLLBACK_TO"}

\* Savepoints in the base transaction beyond which the client sends no
\* further SAVEPOINT.
MaxStack == 2

\* The client's savepoint command arrives: InterceptQuery returns it as it
\* came; a SAVEPOINT with the reserved prefix is a user BEGIN for the
\* handler and takes the claim first, everything else goes to SafeExecTCL.
UserTCL(c, op, name) ==
    /\ ~panicked
    /\ UNCHANGED aside
    /\ pc[c] = "idle"
    /\ op = "SAVEPOINT" => Len(backend.stack) < MaxStack
    /\ op # "SAVEPOINT" => savepointNum < MaxSavepointNum
    /\ Chain(c, "savepoint")
    /\ LET q == InterceptQuery(<<Stmt(op, name)>>)
       IN  /\ query' = [query EXCEPT ![c] = q]
           /\ IF IsUserBeginQuery(q) THEN Goto(c, "userTCL", "claim")
              ELSE Goto(c, "userTCL", "execTCL")
    /\ UNCHANGED <<session, upstream, panicked, rows>>

NextSavepoint ==
    \/ \E c \in Conns : HandleBegin(c)
    \/ \E c \in Conns : BeginLevel(c)
    \/ \E c \in Conns : BeginName(c)
    \/ \E c \in Conns : Claim(c)
    \/ \E c \in Conns : HandleCommit(c)
    \/ \E c \in Conns : HandleRollback(c)
    \/ \E c \in Conns : ExecTCL(c)
    \/ \E c \in Conns : Track(c)
    \/ \E c \in Conns : ExecDML(c)
    \/ \E c \in Conns : ExecSelect(c)
    \/ \E c \in Conns : RowsClose(c)
    \/ \E c \in Conns : GuardFinish(c)
    \/ \E c \in Conns, op \in SavepointOps, name \in ClientNames :
          UserTCL(c, op, name)

SpecSavepoint == Init /\ [][NextSavepoint]_vars

\* ------------------------------------------------------------ query history
notHistory == <<session, upstream, panicked, pc, query, rows, last, chain,
                discLeft, discFrom, extended, registry, server, startup,
                simpleQuery, later>>

\* A query is executed and handed to SetLastQuery; At is its place among the
\* recorded queries in the order of execution.
RecordQuery(text) ==
    /\ offered < MaxQueries
    /\ offered' = offered + 1
    /\ LET entry == [Query |-> text, At |-> Len(recorded) + 1]
       IN  /\ queryHistory' = SetLastQuery(queryHistory, entry)
           /\ recorded' = IF isInternalNoiseQuery(text) THEN recorded
                          ELSE Append(recorded, entry)
    /\ UNCHANGED notHistory

\* ClearQueryHistory; the count of calls starts again with the empty history.
ClearQueryHistory ==
    /\ queryHistory # << >>
    /\ queryHistory' = << >>
    /\ recorded' = << >>
    /\ offered' = 0
    /\ UNCHANGED notHistory

NextHistory ==
    \/ \E text \in QueryTexts : RecordQuery(text)
    \/ ClearQueryHistory

SpecHistory == Init /\ [][NextHistory]_vars

\* The TxStatus byte of the ReadyForQuery that closed the reply of the step
\* just taken: SendReadyForQuery, called once the step's tracking is done.
SentReadyForQuery ==
    /\ last.conn # NoConn
    /\ last.res \notin {"-", "panic"}
    /\ last.op \notin {"disconnect", "disconnectLevel", "disconnectExec"}

SentTxStatus == ReadyForQueryTxStatus(userOpenTransactionCount[last.conn])

\* ------------------------------------------------------------ properties

TclOps == {"SAVEPOINT", "RELEASE", "ROLLBACK_TO"}

\* C1: the upstream base transaction is never committed, whatever the
\* clients send: nothing was ever committed on the backend, no COMMIT (or
\* plain ROLLBACK) statement is ever handed to the forwarding step, and what
\* handleCommit makes of a client COMMIT is the no-op answer or
\* RELEASE SAVEPOINT pgrollback_v_<level>.
C1_BaseTxNeverCommitted ==
    /\ ~backend.commits
    /\ backend.base = InitData
    /\ \A c \in Conns : \A i \in 1..Len(query[c]) : query[c][i].op \in TclOps
    /\ last.op = "commit" =>
         \/ pc[last.conn] = "idle" /\ last.res = "ok"
         \/ /\ pc[last.conn] = "execTCL"
            /\ query[last.conn] =
                 <<Stmt("RELEASE", <<pgrollbackSavepointPrefix, SavepointLevel>>)>>

\* A client COMMIT, issued inside a user transaction with client rows in
\* it, has been executed by the backend.
C1_Witness ==
    \E c \in Conns :
      /\ pc[c] = "track"
      /\ isUserReleaseQuery(query[c])
      /\ backend.data # InitData

\* C2: when `pgrollback rollback` has completed, the rows the session sees
\* are the rows that existed before any client work, in a fresh base
\* transaction with no savepoint left.
C2_FullRollbackRestoresInitial ==
    (last.op = "fullrollback" /\ last.res = "ok") =>
        /\ backend.data = InitData
        /\ backend.stack = << >>
        /\ ~backend.aborted
        /\ tx

\* A `pgrollback rollback` has completed and took client rows away.
C2_Witness ==
    /\ last.op = "fullrollback"
    /\ last.res = "ok"
    /\ last.undone # {}

HeldByOther(c) == connectionWithOpenTx \notin {NoConn, c}

\* C3: the claim is one field, so at most one connection holds it; each
\* call of ClaimOpenTransaction by a connection B fails with "only one
\* transaction at a time" and leaves the claim where it is when a different
\* connection holds it, and otherwise succeeds and leaves the claim with B.
C3_ClaimStep(c) ==
    (pc[c] = "claim" /\ pc'[c] # "claim") =>
        /\ connectionWithOpenTx' \in Conns \cup {NoConn}
        /\ IF HeldByOther(c)
           THEN /\ last'.res = ErrOnlyOneTransactionAtATime
                /\ connectionWithOpenTx' = connectionWithOpenTx
                /\ pc'[c] = "idle"
           ELSE /\ last'.res = "-"
                /\ connectionWithOpenTx' = c
                /\ pc'[c] = "execTCL"

C3_OneClaimHolder == [][\A c \in Conns : C3_ClaimStep(c)]_vars

\* ClaimOpenTransaction has just refused a connection because the other
\* one took the claim after the refused one's BEGIN passed its check.
C3_Witness ==
    /\ last.op = "claim"
    /\ last.res = ErrOnlyOneTransactionAtATime
    /\ HeldByOther(last.conn)

\* C4: a BEGIN that meets another connection's claim, when handleBegin
\* checks the claim or when ClaimOpenTransaction is called for it, is
\* answered with an error; no step of a BEGIN taken while another
\* connection holds the claim touches the backend, and the SAVEPOINT of a
\* BEGIN is never about to be executed for a connection that is not the
\* holder.
C4_BeginStep(c) ==
    HeldByOther(c) =>
        /\ (pc[c] = "idle" /\ last'.conn = c /\ last'.op = "begin") =>
              /\ last'.res \in {ErrOnlyOneTransactionAtATime,
                                ErrNoActiveTransaction}
              /\ pc'[c] = "idle"
              /\ UNCHANGED <<session, upstream>>
        /\ (pc[c] = "claim" /\ pc'[c] # "claim") =>
              /\ last'.res = ErrOnlyOneTransactionAtATime
              /\ pc'[c] = "idle"
              /\ UNCHANGED <<session, upstream>>
        /\ (pc[c] \in {"beginLevel", "beginName"} /\ pc'[c] # pc[c]) =>
              UNCHANGED <<session, upstream>>
        /\ ~(pc[c] = "execTCL" /\ IsUserBeginQuery(query[c]))

C5_NeverAborted ==
    /\ last.res # "25P02"
    /\ (\A c \in Conns : pc[c] = "idle") => ~backend.aborted

\* C6: no command of one connection is refused by the upstream connection
\* because another connection's command is still in flight on it: no
\* answer to a client is pgx's "conn busy".
C6_OneCommandInFlight == last.res # ErrConnBusy

\* C7: a COMMIT or ROLLBACK that arrives at savepoint level 0 is answered
\* with success in the same step, nothing is handed to the forwarding step
\* and nothing reaches the backend, and the level, the claim and the counter
\* of every connection stay as they were.
C7_Step(c) ==
    (/\ pc[c] = "idle"
     /\ SavepointLevel = 0
     /\ last'.conn = c
     /\ last'.op \in {"commit", "rollback"}) =>
        /\ last'.res = "ok"
        /\ pc'[c] = "idle"
        /\ query'[c] = << >>
        /\ UNCHANGED <<SavepointLevel, connectionWithOpenTx,
                       userOpenTransactionCount, upstream>>

C9_Step(c) ==
    (/\ pc[c] = "track"
     /\ SavepointLevel >= 1
     /\ connectionWithOpenTx = c
     /\ query[c] = handleRollback(SavepointLevel)
     /\ pc'[c] = "idle") =>
        /\ SavepointLevel' = SavepointLevel - 1
        /\ userOpenTransactionCount'[c] = userOpenTransactionCount[c] - 1
        /\ userOpenTransactionCount'[c] = 0 => connectionWithOpenTx' = NoConn

C9_RollbackClosesTransaction == [][\A c \in Conns : C9_Step(c)]_vars

\* C10: a BEGIN of the claim holder at level >= 1 never puts a SAVEPOINT on
\* its way to the backend and changes neither the session nor the upstream:
\* taken on such a state, handleBegin's checks let it pass when the base
\* transaction is open, and handleBegin's read of the level answers it with
\* success, with no query left to forward.
C10_Step(c) ==
    (SavepointLevel >= 1 /\ connectionWithOpenTx = c) =>
        /\ (pc[c] = "idle" /\ last'.conn = c /\ last'.op = "begin") =>
              /\ UNCHANGED <<session, upstream>>
              /\ query'[c] = << >>
              /\ IF tx THEN pc'[c] = "beginLevel"
                 ELSE pc'[c] = "idle" /\ last'.res = ErrNoActiveTransaction
        /\ (pc[c] = "beginLevel" /\ pc'[c] # "beginLevel") =>
              /\ last' = [conn |-> c, op |-> "beginLevel", res |-> "ok",
                          undone |-> {}]
              /\ pc'[c] = "idle"
              /\ query'[c] = << >>
              /\ UNCHANGED <<session, upstream>>

C11_FullRollbackResetsSession ==
    (last.op = "fullrollback" /\ last.res = "ok") =>
        /\ SavepointLevel = 0
        /\ connectionWithOpenTx = NoConn

\* C12: when the handling of a disconnect ends for a connection that had N
\* user transactions outstanding, the level is N lower than the connection
\* found it, N pgrollback_v_* savepoints fewer are defined on the backend,
\* and no step of the disconnect touches a claim held by another connection.
C12_Step(c) ==
    /\ (pc[c] \in {"disc", "discExec"} /\ pc'[c] = "idle") =>
          /\ SavepointLevel' = discFrom[c].level - discFrom[c].n
          /\ UserSavepoints(backend') = discFrom[c].sps - discFrom[c].n
    /\ (last'.conn = c /\ last'.op \in {"disconnect", "disconnectLevel",
                                        "disconnectExec"}) =>
          (connectionWithOpenTx # c =>
               connectionWithOpenTx' = connectionWithOpenTx)

C12_DisconnectRollsBackN == [][\A c \in Conns : C12_Step(c)]_vars

\* C13: the ReadyForQuery that ends a reply carries 'T' exactly when the
\* connection's counter of user transactions is at least 1 and 'I'
\* otherwise, and never 'E', not even while the base transaction is in the
\* aborted state.
C13_ReadyForQueryStatus ==
    SentReadyForQuery =>
        /\ SentTxStatus \in {"T", "I"}
        /\ SentTxStatus = "T" <=> userOpenTransactionCount[last.conn] >= 1

\* A BEGIN was answered with status 'T'.
C13_Witness ==
    /\ SentReadyForQuery
    /\ last.op = "track"
    /\ last.res = "ok"
    /\ SentTxStatus = "T"
    /\ SavepointLevel = 1

\* The statement connection c would run through portal q by its own Parse
\* and Bind messages alone.
OwnSql(c, q) ==
    IF myPortal[c][q] = NoStmt THEN NoSql ELSE mine[c][myPortal[c][q]]

\* C14: an Execute of a connection runs the SQL that this connection
\* prepared under the name it bound, and a DEALLOCATE <name> of a connection
\* succeeds exactly when this connection has a statement prepared under the
\* name, whatever the other connections prepared, bound or closed.
C14_Step ==
    /\ \A c \in Conns, q \in Portals :
         (Execute(c, q) /\ OwnSql(c, q) # NoSql) =>
             last'.res = RunPrepared(OwnSql(c, q))
    /\ \A c \in Conns, n \in StmtNames :
         Deallocate(c, n) => (last'.res = "ok" <=> mine[c][n] # NoSql)

C14_OwnPreparedStatements == [][C14_Step]_vars

\* C15: a DEALLOCATE ALL of a connection succeeds and takes nothing from the
\* other connections: every statement another connection prepared and could
\* run before it is still the one stored under its name, and the portals
\* and what each connection prepared and bound stay as they were.
C15_Step(c) ==
    DeallocateAll(c) =>
        /\ last'.res = "ok"
        /\ \A o \in Conns \ {c}, n \in StmtNames :
             (mine[o][n] # NoSql /\ preparedStatements[n] = mine[o][n]) =>
                 preparedStatements'[n] = mine'[o][n]
        /\ UNCHANGED <<portals, mine, myPortal>>

UpstreamsOf(t) ==
    {u \in UpstreamIds :
        pgConns[u].owner = t /\ pgConns[u].state \in {"open", "dead"}}

Registered(t) == SessionsByTestID[t] # NoSession

C16_Inv ==
    \A t \in TestIDs :
        /\ Cardinality(UpstreamsOf(t)) <= 1
        /\ Registered(t) => UpstreamsOf(t) \subseteq {SessionsByTestID[t].id}

C16_Step ==
    \A c \in Conns :
        (/\ GetOrCreateSessionLookup(c)
         /\ rarg[c] \in TestIDs
         /\ Registered(rarg[c])
         /\ sessionValid(SessionsByTestID[rarg[c]], pgConns)) =>
            /\ rlast'.ret = SessionsByTestID[rarg[c]].id
            /\ rlast'.res = NoErr
            /\ SessionsByTestID'[rarg[c]].id = SessionsByTestID[rarg[c]].id
            /\ pgConns' = pgConns

\* C16: a GetOrCreate for a test id that has a session with a valid upstream
\* returns that session and opens nothing, whichever caller makes it, and at
\* no time does a test id have more than one open upstream connection, the
\* one of its registered session.
C16_OneSessionPerTestID == []C16_Inv /\ [][C16_Step]_vars

\* A caller was handed the session already registered for its test id,
\* while the other test id has a session of its own.
C16_Witness ==
    /\ rlast.op = "getOrCreate"
    /\ rlast.res = NoErr
    /\ rlast.found
    /\ Registered(rlast.id)
    /\ SessionsByTestID[rlast.id].id = rlast.ret
    /\ \A t \in TestIDs : Registered(t)

\* C17: the sessions of two test ids have different upstream connections,
\* and what is visible through the session of a test id, and what a query
\* under a test id was shown, are rows written under that test id only.
C17_IsolationBetweenTestIDs ==
    /\ \A t1, t2 \in TestIDs :
         (t1 # t2 /\ Registered(t1) /\ Registered(t2)) =>
             SessionsByTestID[t1].id # SessionsByTestID[t2].id
    /\ \A t \in TestIDs :
         Registered(t) =>
             \A r \in Visible(pgConns[SessionsByTestID[t].id]) : r[1] = t
    /\ rlast.op = "query" => \A r \in rlast.seen : r[1] = rlast.id

\* Both test ids have a session holding rows, and a query was shown rows.
C17_Witness ==
    /\ \A t \in TestIDs :
         Registered(t) /\ pgConns[SessionsByTestID[t].id].data # {}
    /\ rlast.op = "query"
    /\ rlast.seen # {}

C18_Step(c, t) ==
    (Destroy(c, t) /\ t \in TestIDs /\ Registered(t)) =>
        LET u == SessionsByTestID[t].id
        IN  /\ rlast'.res = NoErr
            /\ ~Registered(t)'
            /\ pgConns'[u].state = "closed"
            /\ ~pgConns'[u].txOpen
            /\ pgConns'[u].data = {}

\* C18: a Destroy of a test id that has a session succeeds, leaves the
\* session's base transaction rolled back and its upstream closed, and
\* removes the registry entry; a dead upstream does not make it fail.
C18_DestroyRemovesSession ==
    [][\A c \in Conns, t \in TestIDArgs : C18_Step(c, t)]_vars

C19_OriginalStep(c, t) ==
    (Destroy(c, t) /\ (t \notin TestIDs \/ ~Registered(t))) =>
        rlast'.res = NoErr

\* C19 as stated: a Destroy of a test id that has no registry entry reports
\* success.
C19_DestroyMissingSucceeds ==
    [][\A c \in Conns, t \in TestIDArgs : C19_OriginalStep(c, t)]_vars

C19_Step(c, t) ==
    (Destroy(c, t) /\ (t \notin TestIDs \/ ~Registered(t))) =>
        /\ rlast'.res = ErrSessionNotFound
        /\ UNCHANGED <<SessionsByTestID, pgConns>>

\* C19, amended: a Destroy of a test id that has no registry entry returns
\* the error "session not found" and changes nothing.
C19_DestroyMissingNotFound ==
    [][\A c \in Conns, t \in TestIDArgs : C19_Step(c, t)]_vars

\* A Destroy was answered "session not found" for a test id whose session
\* had been destroyed before.
C19_Witness ==
    /\ rlast.op = "destroy"
    /\ rlast.res = ErrSessionNotFound
    /\ rlast.id \in TestIDs
    /\ \E u \in UpstreamIds :
         pgConns[u].owner = rlast.id /\ pgConns[u].state = "closed"

C20_Step(c) ==
    Cleanup(c) =>
        /\ \A t \in TestIDs :
             SessionsByTestID'[t] =
                 IF Registered(t)
                    /\ clock - SessionsByTestID[t].LastActivity > Timeout
                 THEN NoSession ELSE SessionsByTestID[t]
        /\ rlast'.ret =
               Cardinality({t \in TestIDs : Registered(t) /\ ~Registered(t)'})

\* C20: a CleanupExpired removes the sessions whose last activity lies more
\* than the timeout back and no other, and returns how many it removed.
C20_CleanupRemovesExpired == [][\A c \in Conns : C20_Step(c)]_vars

\* A cleanup removed a session and left another one registered.
C20_Witness ==
    /\ rlast.op = "cleanup"
    /\ rlast.ret >= 1
    /\ \E t \in TestIDs : Registered(t)

\* C21: once Stop has returned, the listener is closed, no accepted client
\* socket is open and no connection handler is running.
C21_StopLeavesNothingRunning ==
    stopPc = "returned" =>
        /\ ~listening
        /\ \A k \in Sockets :
             /\ sockets[k] # "open"
             /\ handler[k] \notin {"started", "serving"}

CancelFirst == startup.length = 8 /\ startup.code = CancelRequestCode

\* C22: a socket whose first packet has length 8 and the cancel-request
\* code is closed with nothing written to it: no SSL answer, no password
\* request, no AuthenticationOK, and no test id is taken from it.
C22_CancelRequestClosed ==
    (CancelFirst /\ startup.pc # "first") =>
        /\ startup.pc \in {"receive", "closed"}
        /\ startup.sent = << >>
        /\ startup.testID = << >>

\* Such a socket has been closed.
C22_Witness == CancelFirst /\ startup.pc = "closed" /\ startup.got = "error"

\* The test id the startup-parameter contract gives for an application_name.
ContractTestID(appName) ==
    IF appName = << >> \/ appName = <<"default">> THEN <<"default">>
    ELSE IF Len(appName) >= 2 /\ Head(appName) \in {"pgtest_", "pgrollback_"}
    THEN Tail(appName)
    ELSE appName

\* C23: the test id taken from a StartupMessage is the suffix for
\* pgtest_<id> and pgrollback_<id>, "default" for an absent, empty or
\* "default" application_name, and the application_name itself otherwise.
C23_TestIDFromApplicationName ==
    (startup.pc \in {"password", "proxy"} /\ startup.got = "StartupMessage") =>
        startup.testID = ContractTestID(startup.app)

\* The last n entries of a sequence, all of it when it is shorter.
LastOf(seq, n) ==
    IF Len(seq) <= n THEN seq ELSE SubSeq(seq, Len(seq) - n + 1, Len(seq))

\* C24: the history never holds more than 100 entries; it is the last 100
\* (or all) of the queries recorded, in the order they were executed, none
\* of them noise.
C24_HistoryCappedOldestFirst ==
    /\ Len(queryHistory) <= maxQueryHistory
    /\ queryHistory = LastOf(recorded, maxQueryHistory)
    /\ \A i \in 1..Len(queryHistory) :
         /\ ~isInternalNoiseQuery(queryHistory[i].Query)
         /\ i > 1 => queryHistory[i - 1].At < queryHistory[i].At

\* More than 100 queries were recorded, noise was offered in between, and
\* the history is full.
C24_Witness ==
    /\ Len(recorded) > maxQueryHistory
    /\ Len(queryHistory) = maxQueryHistory
    /\ offered > Len(recorded)

\* The ReadyForQuery messages among the replies.
ReadyForQueryAt(wire) == {i \in 1..Len(wire) : wire[i] = "ReadyForQuery"}

\* C25: the replies to an answered Query message hold exactly one
\* ReadyForQuery, and it is the last reply.
C25_OneReadyForQueryLast ==
    simpleQuery.pc = "answered" =>
        ReadyForQueryAt(simpleQuery.wire) = {Len(simpleQuery.wire)}

\* A message of several statements failed after a CommandComplete had been
\* sent, and was answered.
C25_Witness ==
    /\ simpleQuery.pc = "answered"
    /\ Len(simpleQuery.statements) > 1
    /\ simpleQuery.failed
    /\ Len(simpleQuery.wire) >= 3
    /\ simpleQuery.wire[1] = "CommandComplete"

\* The higher of two levels: the level whose savepoint a change of the level
\* from one to the other is about.
LevelOf(a, b) == IF a > b THEN a ELSE b

\* C26: every step that raises or lowers the savepoint level is the
\* tracking of a statement the backend has accepted, a SAVEPOINT, RELEASE or
\* ROLLBACK TO of the savepoint of that level, on the disconnect cleanup too;
\* so no connection reads a level whose statement has not completed.
C26_Step ==
    SavepointLevel' # SavepointLevel =>
        \E c \in Conns :
            /\ pc[c] = "track"
            /\ last'.conn = c
            /\ last'.op = "track"
            /\ extractSavepointNameFromQuery(query[c]) =
                   GetSavepointName(LevelOf(SavepointLevel, SavepointLevel'))

C26_LevelFollowsBackend == [][C26_Step]_vars

\* No connection stands inside the handling of a BEGIN, COMMIT or ROLLBACK
\* or inside the cleanup of a disconnect.
NoTCLInFlight == \A c \in Conns : pc[c] \in {"idle", "rows", "guard"}

\* C27: whenever no TCL command is in flight, the savepoint level equals the
\* number of pgrollback_v_* savepoints defined on the backend inside the base
\* transaction.
C27_LevelEqualsSavepoints ==
    NoTCLInFlight => SavepointLevel = UserSavepoints(backend)

\* Another connection holds the claim with a user transaction open.
OpenElsewhere(c) ==
    /\ HeldByOther(c)
    /\ SavepointLevel >= 1
    /\ userOpenTransactionCount[connectionWithOpenTx] >= 1

\* C28: while another connection holds the claim with its user transaction
\* open at level L, the forwarding and the tracking of a COMMIT or ROLLBACK
\* of a connection that does not hold the claim take no savepoint from the
\* backend and leave the level, the claim and the counters as they were.
C28_Step(c) ==
    (/\ OpenElsewhere(c)
     /\ pc[c] \in {"execTCL", "track"}
     /\ query[c] \in {handleCommit(SavepointLevel),
                      handleRollback(SavepointLevel)}
     /\ last'.conn = c) =>
        /\ backend'.stack = backend.stack
        /\ UNCHANGED <<SavepointLevel, connectionWithOpenTx,
                       userOpenTransactionCount>>

C28_ForeignCommitTouchesNothing == [][\A c \in Conns : C28_Step(c)]_vars

\* C29: whenever no TCL command is in flight, only the holder of the claim
\* has a counter above 0, the level equals the holder's counter, and the
\* level is 0 when nobody holds the claim.
C29_CounterClaimLevel ==
    NoTCLInFlight =>
        /\ \A c \in Conns :
             userOpenTransactionCount[c] > 0 => connectionWithOpenTx = c
        /\ connectionWithOpenTx # NoConn =>
             SavepointLevel = userOpenTransactionCount[connectionWithOpenTx]
        /\ connectionWithOpenTx = NoConn => SavepointLevel = 0

\* C30: when the backend rejects the statement a COMMIT or ROLLBACK was
\* rewritten to, the level, the claim and the counter of the connection are
\* left as they were before the command; when it rejects the SAVEPOINT of a
\* BEGIN, the level and the counter are left and the claim taken for the
\* BEGIN is given back.  A statement the driver refuses with "conn busy"
\* has not reached the backend and is not a rejection.
C30_Step(c) ==
    (/\ pc[c] = "execTCL"
     /\ last'.conn = c
     /\ last'.op = "execTCL"
     /\ last'.res \notin {"-", "panic", ErrConnBusy}) =>
        /\ UNCHANGED <<SavepointLevel, userOpenTransactionCount>>
        /\ connectionWithOpenTx' =
               IF IsUserBeginQuery(query[c]) /\ connectionWithOpenTx = c
               THEN NoConn
               ELSE connectionWithOpenTx

C30_RejectedTCLChangesNothing == [][\A c \in Conns : C30_Step(c)]_vars

\* C31: the session has an open base transaction whenever a connection can
\* send it SQL, after a `pgrollback rollback` whose backend step failed too.
C31_BaseTxAlwaysOpen == tx

\* C32: no statement of a client's command runs on the upstream between the
\* rollback of the old base transaction and the BEGIN of the new one.
C32_NothingRunsInTheGap == ~restart.ran.gap

DisconnectOps == {"disconnect", "disconnectLevel", "disconnectExec"}

\* C33: when the handling of a connection's close ends, the connection no
\* longer holds the claim, and where it held it the BEGIN of any other
\* connection is no longer refused on account of the claim.
C33_Step(c) ==
    (/\ last'.conn = c
     /\ last'.op \in DisconnectOps
     /\ pc'[c] = "idle") =>
        /\ connectionWithOpenTx' # c
        /\ connectionWithOpenTx = c =>
             \A o \in Conns \ {c} :
                /\ handleBeginPrecheck(tx', connectionWithOpenTx', o)
                      # ErrOnlyOneTransactionAtATime
                /\ ClaimOpenTransaction(connectionWithOpenTx', o).err = "ok"

StepQuery(c) == IF pc[c] = "idle" THEN query'[c] ELSE query[c]

UserCommand(q, names) ==
    /\ Len(q) = 1
    /\ q[1].op \in SavepointOps
    /\ q[1].arg \in names

UserTCLOps == {"userTCL", "claim", "execTCL", "track"}

C34_Frame(c, names) ==
    (/\ last'.conn = c
     /\ last'.op \in UserTCLOps
     /\ UserCommand(StepQuery(c), names)) =>
        /\ SavepointLevel' = SavepointLevel
        /\ userOpenTransactionCount' = userOpenTransactionCount
        /\ connectionWithOpenTx' = connectionWithOpenTx
        /\ (last'.op = "execTCL" /\ busy = NoConn /\ ~backend.aborted) =>
              LET direct == BExec(backend, StepQuery(c))
              IN  /\ (pc'[c] = "track") = (direct.err = "ok")
                  /\ direct.err = "ok" => backend' = direct.b
                  /\ direct.err # "ok" => last'.res = direct.err

ClientSavepoints(b) ==
    {i \in 1..Len(b.stack) : b.stack[i].name \in PlainNames}

\* C35: a SAVEPOINT of the client that the backend accepted is defined in
\* the base transaction when the command completes, and stays defined until
\* a transaction command of a client removes it, so that a later ROLLBACK TO
\* or RELEASE of the name finds it.
C35_Step ==
    /\ \A c \in Conns :
          (/\ last'.conn = c
           /\ last'.op = "execTCL"
           /\ pc'[c] = "track"
           /\ UserCommand(query[c], PlainNames)
           /\ query[c][1].op = "SAVEPOINT") =>
              /\ backend'.stack # << >>
              /\ backend'.stack[Len(backend'.stack)].name = query[c][1].arg
    /\ Cardinality(ClientSavepoints(backend'))
          < Cardinality(ClientSavepoints(backend)) => last'.op = "execTCL"

C35_UserSavepointStays == [][C35_Step]_vars

\* The guard sp_n is no longer defined: released, or consumed by the command.
GuardGone(b, n) == TopIndex(b.stack, GuardName(n)) = 0

\* The guard sp_n has been rolled back to: it is the last savepoint and the
\* transaction is as it was when the guard was created.
GuardRolledBack(b, n) ==
    /\ b.stack # << >>
    /\ b.stack[Len(b.stack)].name = GuardName(n)
    /\ b.data = b.stack[Len(b.stack)].snap
    /\ ~b.aborted

\* Connection c's guarded command finishes in this step, with guard sp_n.
GuardedEnds(c, n) ==
    /\ last'.conn = c
    /\ pc'[c] # pc[c] \/ pc[c] = "idle"
    /\ \/ last'.op = "guard" /\ n = rows[c].n
       \/ /\ last'.op \in {"dml", "select", "execTCL"}
          /\ pc'[c] \in {"idle", "track"}
          /\ savepointNum' = savepointNum + 1
          /\ n = savepointNum'

\* C36: when a guarded command finishes, its guard savepoint is released or
\* consumed if the command succeeded, and rolled back (or gone) if it failed.
C36_Step(c) ==
    \A n \in 1..MaxSavepointNum :
       GuardedEnds(c, n) =>
          IF last'.res \in {"ok", "-"} THEN GuardGone(backend', n)
          ELSE GuardGone(backend', n) \/ GuardRolledBack(backend', n)

C36_NoGuardLeftOpen == [][\A c \in Conns : C36_Step(c)]_vars

\* A client's command ran on the session now registered for t less than
\* Timeout ago.
RecentlyUsed(t) ==
    /\ SessionsByTestID[t] # NoSession
    /\ commandAt[t].id = SessionsByTestID[t].id
    /\ clock - commandAt[t].at < Timeout

\* C37: CleanupExpiredSessions leaves in the registry every session on which
\* a client's command was executed within the last timeout interval.
C37_Step ==
    rlast'.op = "cleanup" =>
       \A t \in TestIDs : RecentlyUsed(t) => SessionsByTestID'[t] # NoSession

C37_CleanupSparesActiveSessions == [][C37_Step]_vars

\* C38: a DestroySession or CleanupExpiredSessions that has reached the
\* session's rollbackTx and close returns.
C38_CloseTerminates ==
    (closing.closer # "idle") ~> (closing.closer = "returned")

\* C39: a `pgrollback status` that has been received is answered, whatever
\* the other connections do with the session's lock.
C39_StatusCompletes ==
    (status.reader \notin {"idle", "returned"}) ~> (status.reader = "returned")

\* C40: whatever Stop() does meanwhile, the accept loop does not panic: it
\* neither calls Accept on the cleared s.listener nor pushes a connection
\* to the admin listener after its Close.
C40_AcceptLoopNeverCrashes == accepting.loop # "crashed"

====
